---------------------------- MODULE Spec2Model ----------------------------
(***************************************************************************)
(* A model of the codebase_explainer pipeline of CodeAtlas:                *)
(*   parse.py      _fallback_ast / _base_name   (the Scanner)              *)
(*   graph.py      build_graphs                 (the Graph Builder)        *)
(*   visualize.py  render_graphs                (the Diagram Renderer)     *)
(*                                                                         *)
(* Strings the code inspects or assembles (paths, qualified class names,   *)
(* format selectors) are sequences of tokens, so that startswith, the      *)
(* "*.py" glob, relative_to, the f-string "<rel>:<name>" and lower() are   *)
(* computed and not assumed.                                               *)
(*                                                                         *)
(* Three specifications share the module; each leaves the variables of the *)
(* other components at their idle values:                                  *)
(*   Spec        the Scanner run twice over one directory tree             *)
(*   SpecGraph   build_graphs over arbitrary mappings                      *)
(*   SpecRender  render_graphs over a small filesystem                     *)
(***************************************************************************)
EXTENDS Integers, Sequences, FiniteSets, TLC

VARIABLES
    \* ---- Scanner (parse.py) ----
    tree,        \* the directory: relative path -> file content
    todo,        \* paths root.rglob("*.py") has still to yield
    mods,        \* local mods of _fallback_ast
    inh,         \* local inh of _fallback_ast
    scan_pc,     \* "scanning" | "returned" | "raised"
    run,         \* 1 or 2: which run over the same tree
    first_mods,  \* the modules mapping the first run returned
    first_inh,   \* the classes mapping the first run returned
    \* ---- Graph Builder (graph.py) ----
    module_deps,    \* argument of build_graphs
    class_inherit,  \* argument of build_graphs
    mod_left,       \* keys of module_deps the first loop has still to visit
    cls_left,       \* keys of class_inherit the second loop has still to visit
    g_mod,          \* the DiGraph g_mod
    g_cls,          \* the DiGraph g_cls
    build_pc,       \* "idle" | "modules" | "classes" | "returned"
    \* ---- Diagram Renderer (visualize.py) ----
    fmt,         \* argument fmt of render_graphs
    graphs,      \* argument graphs: <<module_g, class_g>>
    has_dot,     \* whether shutil.which("dot") finds the layout tool
    pending,     \* the (name, graph) pairs the svg loop has still to process
    fs0,         \* the filesystem when render_graphs was called
    fs,          \* the filesystem: [dir_exists, files: name -> text]
    console,     \* what console.print has emitted
    invoked,     \* the subprocess.run calls made, in order: [argv, ok (exit status 0)]
    raised,      \* the exception render_graphs raised, "" when none
    render_pc,   \* "idle" | "start" | "dispatch" | "write" | "run" | "returned" | "raised"
    first_call,  \* how an earlier call with the same arguments ended, and the filesystem it left
    \* ---- Command line (cli.py, clone.py, parse_codebase of parse.py) ----
    repo,        \* option --repo: [given, url]
    path,        \* option --path: [given, parts]
    analyser_t,  \* the module global AnalyserT of parse.py: "None" | "Analyser"
    main_pc,     \* where the process is, "idle" when the command line is not run
    trace,       \* the stage events so far: <<stage, "start" | "end" | "fail">>
    calls,       \* the imports, git clones, analyser steps and _fallback_ast calls made: [op, arg, out]
    target,      \* the directory get_local_repo returned
    parsed,      \* what parse_codebase returned: [by, value]
    exit_status, \* the exit status of the process, Running until it has exited
    main_raised, \* the exception that ended the process, "" when none
    interrupted, \* where SIGINT arrived: [at, events], at = "" when it did not
    \* ---- DeepWiki client (src/deepwiki_client.py) ----
    wiki_url,    \* argument repo_url of export_full_wiki_async
    wiki_fmt,    \* argument fmt: "markdown" | "html"
    wiki_pc,     \* where export_full_wiki_async is, "idle" when it is not called
    wiki_log,    \* the requests made, in order: [step, what, ok]
    listing,     \* file_paths, the list _get_repo_files returned
    pages_read,  \* pages of the Bitbucket listing fetched so far
    tokens,      \* the frames received over the WebSocket
    content,     \* the text _run_and_capture_stream returned
    cache,       \* the page content the server's wiki cache holds
    dest,        \* the output folder: [exists, files]
    wiki_raised, \* the exception export_full_wiki_async raised, "" when none
    \* ---- callers of the client (deepwiki_wrapper.py, app.py, 01_DeepWiki_App.py) ----
    caller,      \* the entry point that runs, "none" when none does
    form,        \* what the user entered: [repo_url, fmt, token, is_private]
    kwargs,      \* the keyword arguments export_full_wiki was called with, by name
    call_pc,     \* where the caller is, "idle" when none runs
    call_raised, \* the exception that left export_full_wiki, "" when none
    call_status  \* the exit status of the caller's process, Running while it lives

scanVars   == <<tree, todo, mods, inh, scan_pc, run, first_mods, first_inh>>
buildVars  == <<module_deps, class_inherit, mod_left, cls_left, g_mod, g_cls, build_pc>>
renderVars == <<fmt, graphs, has_dot, pending, fs0, fs, console, invoked, raised, render_pc, first_call>>
mainVars   == <<repo, path, analyser_t, main_pc, trace, calls, target, parsed, exit_status,
                 main_raised, interrupted>>
wikiVars   == <<wiki_url, wiki_fmt, wiki_pc, wiki_log, listing, pages_read, tokens, content,
                 cache, dest, wiki_raised>>
callVars   == <<caller, form, kwargs, call_pc, call_raised, call_status>>
vars       == <<scanVars, buildVars, renderVars, mainVars, wikiVars, callVars>>

-----------------------------------------------------------------------------
(* Bounds *)

MaxFiles == 3   \* files in the scanned directory tree
MaxDeps  == 2   \* import names recorded for one module

-----------------------------------------------------------------------------
(* Generic helpers *)

EmptyMap == [x \in {} |-> <<>>]

Range(s) == {s[i] : i \in 1..Len(s)}

SeqsUpTo(S, n) == UNION {[1..k -> S] : k \in 0..n}

IsPrefix(p, s) == Len(p) <= Len(s) /\ SubSeq(s, 1, Len(p)) = p

\* dict.setdefault(k, v)
SetDefault(d, k, v) == IF k \in DOMAIN d THEN d ELSE d @@ (k :> v)

\* d[k] = v
Put(d, k, v) == [x \in (DOMAIN d) \cup {k} |-> IF x = k THEN v ELSE d[x]]

\* A networkx DiGraph: the nodes in insertion order, and for every node its
\* successors in insertion order.
EmptyGraph == [nodes |-> <<>>, succ |-> EmptyMap]

\* The filesystem under the renderer's destination: whether the directory
\* exists, and the text of each file in it.
EmptyFs == [dir_exists |-> FALSE, files |-> EmptyMap]

\* The values the variables of a component keep while another one runs.
ScanIdle ==
    /\ tree = EmptyMap /\ todo = {} /\ mods = EmptyMap /\ inh = EmptyMap
    /\ scan_pc = "idle" /\ run = 1 /\ first_mods = EmptyMap /\ first_inh = EmptyMap
BuildIdle ==
    /\ module_deps = EmptyMap /\ class_inherit = EmptyMap
    /\ mod_left = {} /\ cls_left = {}
    /\ g_mod = EmptyGraph /\ g_cls = EmptyGraph /\ build_pc = "idle"
RenderIdle ==
    /\ fmt = <<>> /\ graphs = <<EmptyGraph, EmptyGraph>>
    /\ has_dot = FALSE /\ pending = <<>>
    /\ fs0 = EmptyFs /\ fs = EmptyFs
    /\ console = <<>> /\ invoked = <<>> /\ raised = "" /\ render_pc = "idle"
    /\ first_call = [pc |-> "none", fs |-> EmptyFs]

\* The exit statuses of the process; Running while it has not exited.
Running         == -1
ExitOk          == 0
ExitError       == 1
ExitUsage       == 2
ExitInterrupted == 130

\* The pair of mappings a scan returns.
EmptyResult == [modules |-> EmptyMap, classes |-> EmptyMap]

NotParsed      == [by |-> "none", value |-> EmptyResult]
NotInterrupted == [at |-> "", events |-> 0]
NoRepo         == [given |-> FALSE, url |-> <<>>]
NoPath         == [given |-> FALSE, parts |-> <<>>]

MainIdle ==
    /\ repo = NoRepo /\ path = NoPath /\ analyser_t = "None" /\ main_pc = "idle"
    /\ trace = <<>> /\ calls = <<>> /\ target = <<>> /\ parsed = NotParsed
    /\ exit_status = Running /\ main_raised = "" /\ interrupted = NotInterrupted

\* The output folder of the client before it exists.
NoDest == [exists |-> FALSE, files |-> {}]

WikiIdle ==
    /\ wiki_url = <<>> /\ wiki_fmt = "markdown" /\ wiki_pc = "idle" /\ wiki_log = <<>>
    /\ listing = <<>> /\ pages_read = 0 /\ tokens = <<>> /\ content = <<>>
    /\ cache = <<>> /\ dest = NoDest /\ wiki_raised = ""

CallIdle ==
    /\ caller = "none"
    /\ form = [repo_url |-> <<>>, fmt |-> "markdown", token |-> "", is_private |-> FALSE]
    /\ kwargs = EmptyMap /\ call_pc = "idle" /\ call_raised = "" /\ call_status = Running

-----------------------------------------------------------------------------
(* The Scanner: parse.py *)

\* The root directory handed to _fallback_ast.
Root == <<"/", "repo", "/">>

\* Relative paths a directory tree may hold, as token sequences:
\* a.py, pkg/b.py, pkg/__init__.py, __init__helper.py, notes.txt
Paths ==
    { <<"a", ".py">>,
      <<"pkg", "/", "b", ".py">>,
      <<"pkg", "/", "__init__", ".py">>,
      <<"__init__", "helper", ".py">>,
      <<"notes", ".txt">> }

\* Path.parts[-1]: the tokens after the last separator.
LastPart(p) ==
    LET seps == {i \in 1..Len(p) : p[i] = "/"}
        from == IF seps = {} THEN 1 ELSE (CHOOSE i \in seps : \A j \in seps : j <= i) + 1
    IN  SubSeq(p, from, Len(p))

\* The glob "*.py" of root.rglob: the name ends with the extension.
MatchesPy(p) == Len(p) > 0 /\ p[Len(p)] = ".py"

\* root.rglob("*.py"): the absolute paths of the matching files.
Rglob(t) == {Root \o rel : rel \in {r \in DOMAIN t : MatchesPy(r)}}

\* py.parts[-1].startswith("__init__")   (IsInitializerExact: == "__init__.py")
IsInitializerExact(py) == LastPart(py) = <<"__init__", ".py">>
IsInitializer(py) == LET name == LastPart(py) IN Len(name) > 0 /\ name[1] = "__init__"

\* str(py.relative_to(root))
RelativeTo(py, root) == SubSeq(py, Len(root) + 1, Len(py))

\* Base-class expressions: ast.Name, ast.Attribute, and any other
\* expression (a call, a subscript).
NameExpr(id)     == [kind |-> "Name", id |-> id, attr |-> ""]
AttrExpr(q, a)   == [kind |-> "Attribute", id |-> q, attr |-> a]
CallExpr         == [kind |-> "Call", id |-> "", attr |-> ""]

\* The nodes ast.walk yields that the scanner looks at, and one it ignores.
\* module = "" stands for ImportFrom.module = None ("from . import x").
ImportNode(names)   == [type |-> "Import", names |-> names, module |-> "", name |-> "", bases |-> <<>>]
ImportFromNode(m)   == [type |-> "ImportFrom", names |-> <<>>, module |-> m, name |-> "", bases |-> <<>>]
ClassDefNode(n, bs) == [type |-> "ClassDef", names |-> <<>>, module |-> "", name |-> n, bases |-> bs]
PassNode            == [type |-> "Pass", names |-> <<>>, module |-> "", name |-> "", bases |-> <<>>]

\* The source files a tree is populated with, each given by the nodes
\* ast.walk yields for it, in that order:
\*   an empty file
\*   import os / import b
\*   class Foo(Exception)
\*   import os.path, b / from b import x / from . import y / pass
\*   class Foo(models.Model, Mixin) / class Bar / class Baz(Foo)
\*   class Foo(make_base())
\*   class Foo(Mixin, Exception) ... class Foo(Exception)   (Foo defined twice)
Walks ==
    { <<>>,
      <<ImportNode(<<"os">>), ImportNode(<<"b">>)>>,
      <<ClassDefNode("Foo", <<NameExpr("Exception")>>)>>,
      <<ImportNode(<<"os.path", "b">>), ImportFromNode("b"), ImportFromNode(""), PassNode>>,
      <<ClassDefNode("Foo", <<AttrExpr("models", "Model"), NameExpr("Mixin")>>),
        ClassDefNode("Bar", <<>>),
        ClassDefNode("Baz", <<NameExpr("Foo")>>)>>,
      <<ClassDefNode("Foo", <<CallExpr>>)>>,
      <<ClassDefNode("Foo", <<NameExpr("Mixin"), NameExpr("Exception")>>),
        ClassDefNode("Foo", <<NameExpr("Exception")>>)>> }

\* What a file is: bytes read_text cannot decode, text ast.parse rejects
\* with SyntaxError, or text that parses to a tree whose nodes ast.walk
\* yields in the order of walk.
Undecodable == [status |-> "undecodable", walk |-> <<>>]
Unparsable  == [status |-> "syntax_error", walk |-> <<>>]
Parsed(w)   == [status |-> "parsed", walk |-> w]

Contents == {Undecodable, Unparsable} \cup {Parsed(w) : w \in Walks}

Trees ==
    UNION {[D -> Contents] : D \in {E \in SUBSET Paths : Cardinality(E) <= MaxFiles}}

\* The addresses the interpreter may give an AST node object.
Addrs == {"0x7f01", "0x7f02"}

\* repr(base) of an AST node: "<ast.Call object at 0x...>"
Repr(base, addr) == <<"<ast.", base.kind, " object at ", addr, ">">>

\* _base_name(base)   (BaseNameFull: the whole dotted path of an attribute)
BaseNameFull(base, addr) ==
    IF base.kind = "Name" THEN <<base.id>>
    ELSE IF base.kind = "Attribute" THEN <<base.id, ".", base.attr>>
    ELSE Repr(base, addr)
BaseName(base, addr) ==
    IF base.kind = "Name" THEN <<base.id>>
    ELSE IF base.kind = "Attribute" THEN <<base.attr>>
    ELSE Repr(base, addr)

\* f"{rel}:{n.name}"   (ChildUnqualified: the bare class name as the key)
ChildUnqualified(rel, name) == <<name>>
Child(rel, name) == rel \o <<":", name>>

\* n.bases[0] of a class definition
ChosenBase(bases) == bases[1]

\* One iteration of "for n in ast.walk(tree)": the if/elif chain of
\* lines 37-45 applied to node n, on st = [mods, inh].
\* (VisitNodeAnyFrom: the test "and n.module" of line 40 dropped.)
VisitNodeAnyFrom(st, rel, n, addr) ==
    IF n.type = "Import"
    THEN [st EXCEPT !.mods[rel] = @ \o n.names]
    ELSE IF n.type = "ImportFrom"
    THEN [st EXCEPT !.mods[rel] = Append(@, n.module)]
    ELSE IF n.type = "ClassDef" /\ n.bases # <<>>
    THEN [st EXCEPT !.inh = Put(@, Child(rel, n.name), BaseName(ChosenBase(n.bases), addr))]
    ELSE st
VisitNode(st, rel, n, addr) ==
    IF n.type = "Import"
    THEN [st EXCEPT !.mods[rel] = @ \o n.names]
    ELSE IF n.type = "ImportFrom" /\ n.module # ""
    THEN [st EXCEPT !.mods[rel] = Append(@, n.module)]
    ELSE IF n.type = "ClassDef" /\ n.bases # <<>>
    THEN [st EXCEPT !.inh = Put(@, Child(rel, n.name), BaseName(ChosenBase(n.bases), addr))]
    ELSE st

\* The whole loop over ast.walk(tree); addrs[i] is the address of the
\* first base of the i-th node.
RECURSIVE WalkFrom(_, _, _, _, _)
WalkFrom(st, rel, w, addrs, i) ==
    IF i > Len(w) THEN st
    ELSE WalkFrom(VisitNode(st, rel, w[i], addrs[i]), rel, w, addrs, i + 1)


ScanInitial == /\ tree \in Trees
               /\ todo = Rglob(tree)
               /\ mods = EmptyMap
               /\ inh = EmptyMap
               /\ scan_pc = "scanning"
               /\ run = 1
               /\ first_mods = EmptyMap
               /\ first_inh = EmptyMap

\* One iteration of "for py in root.rglob('*.py')", lines 27-47.  The
\* order in which rglob yields the paths is the filesystem's.  The
\* verbose console line of 46-47 changes nothing the scanner returns and
\* is left out.
ScanFile(py) ==
    /\ scan_pc = "scanning"
    /\ py \in todo
    /\ todo' = todo \ {py}
    /\ IF IsInitializer(py)
       THEN UNCHANGED <<mods, inh, scan_pc>>
       ELSE LET rel  == RelativeTo(py, Root)
                file == tree[rel]
                m1   == SetDefault(mods, rel, <<>>)
            IN  CASE file.status = "undecodable" ->
                       \* read_text raises UnicodeDecodeError: not caught
                       /\ scan_pc' = "raised"
                       /\ mods' = m1
                       /\ UNCHANGED inh
                  [] file.status = "syntax_error" ->
                       \* except SyntaxError: continue
                       /\ mods' = m1
                       /\ UNCHANGED <<inh, scan_pc>>
                  [] file.status = "parsed" ->
                       \E addrs \in [1..Len(file.walk) -> Addrs] :
                          LET st == WalkFrom([mods |-> m1, inh |-> inh],
                                             rel, file.walk, addrs, 1)
                          IN  /\ mods' = st.mods
                              /\ inh' = st.inh
                              /\ UNCHANGED scan_pc
    /\ UNCHANGED <<tree, run, first_mods, first_inh>>
    /\ UNCHANGED <<buildVars, renderVars, mainVars, wikiVars, callVars>>

\* return mods, inh (line 48)
ScanReturn ==
    /\ scan_pc = "scanning"
    /\ todo = {}
    /\ scan_pc' = "returned"
    /\ UNCHANGED <<tree, todo, mods, inh, run, first_mods, first_inh>>
    /\ UNCHANGED <<buildVars, renderVars, mainVars, wikiVars, callVars>>

\* A second call of _fallback_ast on the same, unchanged directory.
ScanAgain ==
    /\ scan_pc = "returned"
    /\ run = 1
    /\ run' = 2
    /\ first_mods' = mods
    /\ first_inh' = inh
    /\ mods' = EmptyMap
    /\ inh' = EmptyMap
    /\ todo' = Rglob(tree)
    /\ scan_pc' = "scanning"
    /\ UNCHANGED tree
    /\ UNCHANGED <<buildVars, renderVars, mainVars, wikiVars, callVars>>

ScanNext ==
    \/ \E py \in todo : ScanFile(py)
    \/ ScanReturn
    \/ ScanAgain

Init == ScanInitial /\ BuildIdle /\ RenderIdle /\ MainIdle /\ WikiIdle /\ CallIdle

Spec == Init /\ [][ScanNext]_vars

-----------------------------------------------------------------------------
(* The Graph Builder: graph.py *)

\* g.nodes() and g.edges() as sets
Nodes(g) == Range(g.nodes)
Edges(g) == {e \in Nodes(g) \X Nodes(g) : e[2] \in Range(g.succ[e[1]])}

\* DiGraph.add_node(n): a node already present is left as it is.
AddNode(g, n) ==
    IF n \in Nodes(g) THEN g
    ELSE [nodes |-> Append(g.nodes, n), succ |-> g.succ @@ (n :> <<>>)]

\* DiGraph.add_edge(u, v): adds both nodes when missing; an edge already
\* present is left as it is.
AddEdge(g, u, v) ==
    LET g2 == AddNode(AddNode(g, u), v)
    IN  IF v \in Range(g2.succ[u]) THEN g2
        ELSE [g2 EXCEPT !.succ[u] = Append(@, v)]

\* for d in deps: g_mod.add_edge(mod, d)   (lines 13-14)
RECURSIVE AddEdgesFrom(_, _, _, _)
AddEdgesFrom(g, mod, deps, i) ==
    IF i > Len(deps) THEN g
    ELSE AddEdgesFrom(AddEdge(g, mod, deps[i]), mod, deps, i + 1)

\* The body of the first loop, lines 12-14.   (AddModuleEdgesOnly: without
\* the add_node of line 12)
AddModuleEdgesOnly(g, mod, deps) == AddEdgesFrom(g, mod, deps, 1)
AddModule(g, mod, deps) == AddEdgesFrom(AddNode(g, mod), mod, deps, 1)

\* The body of the second loop, line 18.   (AddClassChildToParent: the edge
\* reversed)
AddClassChildToParent(g, child, parent) == AddEdge(g, child, parent)
AddClass(g, child, parent) == AddEdge(g, parent, child)

\* The arguments build_graphs is called with: module paths and import
\* names, qualified child names and base names.
ModuleKeys  == {"a", "b"}
ImportNames == {"a", "b", "c"}
ChildKeys   == {"x.py:Foo", "y.py:Foo", "x.py:Bar"}
BaseNames   == {"Base", "x.py:Foo"}

ModuleMaps == UNION {[D -> SeqsUpTo(ImportNames, MaxDeps)] : D \in SUBSET ModuleKeys}
ClassMaps  == UNION {[D -> BaseNames] : D \in SUBSET ChildKeys}

BuildInitial ==
    /\ module_deps \in ModuleMaps
    /\ class_inherit \in ClassMaps
    /\ mod_left = DOMAIN module_deps
    /\ cls_left = DOMAIN class_inherit
    /\ g_mod = EmptyGraph
    /\ g_cls = EmptyGraph
    /\ build_pc = "modules"

\* One iteration of "for mod, deps in module_deps.items()", lines 11-14.
\* The dict yields its keys in insertion order, which is the caller's.
BuildModule(mod) ==
    /\ build_pc = "modules"
    /\ mod \in mod_left
    /\ g_mod' = AddModule(g_mod, mod, module_deps[mod])
    /\ mod_left' = mod_left \ {mod}
    /\ UNCHANGED <<module_deps, class_inherit, cls_left, g_cls, build_pc>>
    /\ UNCHANGED <<scanVars, renderVars, mainVars, wikiVars, callVars>>

\* The first loop is over: g_cls = nx.DiGraph(), line 16.
BuildStartClasses ==
    /\ build_pc = "modules"
    /\ mod_left = {}
    /\ g_cls' = EmptyGraph
    /\ build_pc' = "classes"
    /\ UNCHANGED <<module_deps, class_inherit, mod_left, cls_left, g_mod>>
    /\ UNCHANGED <<scanVars, renderVars, mainVars, wikiVars, callVars>>

\* One iteration of "for child, parent in class_inherit.items()", lines 17-18.
BuildClass(child) ==
    /\ build_pc = "classes"
    /\ child \in cls_left
    /\ g_cls' = AddClass(g_cls, child, class_inherit[child])
    /\ cls_left' = cls_left \ {child}
    /\ UNCHANGED <<module_deps, class_inherit, mod_left, g_mod, build_pc>>
    /\ UNCHANGED <<scanVars, renderVars, mainVars, wikiVars, callVars>>

\* return g_mod, g_cls (line 20)
BuildReturn ==
    /\ build_pc = "classes"
    /\ cls_left = {}
    /\ build_pc' = "returned"
    /\ UNCHANGED <<module_deps, class_inherit, mod_left, cls_left, g_mod, g_cls>>
    /\ UNCHANGED <<scanVars, renderVars, mainVars, wikiVars, callVars>>

BuildNext ==
    \/ \E mod \in mod_left : BuildModule(mod)
    \/ BuildStartClasses
    \/ \E child \in cls_left : BuildClass(child)
    \/ BuildReturn

InitGraph == ScanIdle /\ BuildInitial /\ RenderIdle /\ MainIdle /\ WikiIdle /\ CallIdle

SpecGraph == InitGraph /\ [][BuildNext]_vars

(* The scanner's output handed to the builder: cli.py *)

\* mods, classes = parse_codebase(target) with no analyser installed, which
\* is _fallback_ast(root) (parse.py lines 60-61), then
\* build_graphs(mods, classes): the call binds the two dicts the scanner
\* returned to module_deps and class_inherit and creates g_mod (line 10).
\* Paths and class names are token sequences, so an import name, one
\* string, is passed on as the sequence of that one token.
BuildFromScan ==
    /\ scan_pc = "returned"
    /\ build_pc = "idle"
    /\ module_deps' = [rel \in DOMAIN mods |->
                          [i \in 1..Len(mods[rel]) |-> <<mods[rel][i]>>]]
    /\ class_inherit' = inh
    /\ mod_left' = DOMAIN mods
    /\ cls_left' = DOMAIN inh
    /\ g_mod' = EmptyGraph
    /\ g_cls' = EmptyGraph
    /\ build_pc' = "modules"
    /\ UNCHANGED <<scanVars, renderVars, mainVars, wikiVars, callVars>>

ScanBuildNext ==
    \/ \E py \in todo : ScanFile(py)
    \/ ScanReturn
    \/ BuildFromScan
    \/ \E mod \in mod_left : BuildModule(mod)
    \/ BuildStartClasses
    \/ \E child \in cls_left : BuildClass(child)
    \/ BuildReturn

InitScanBuild == ScanInitial /\ BuildIdle /\ RenderIdle /\ MainIdle /\ WikiIdle /\ CallIdle

SpecScanBuild == InitScanBuild /\ [][ScanBuildNext]_vars

-----------------------------------------------------------------------------
(* The Diagram Renderer: visualize.py *)

\* g.nodes() and g.edges() in networkx's iteration order: nodes as inserted,
\* edges by source node, then by successor as inserted.
RECURSIVE EdgeSeqFrom(_, _)
EdgeSeqFrom(g, i) ==
    IF i > Len(g.nodes) THEN <<>>
    ELSE [j \in 1..Len(g.succ[g.nodes[i]]) |-> <<g.nodes[i], g.succ[g.nodes[i]][j]>>]
            \o EdgeSeqFrom(g, i + 1)
EdgeSeq(g) == EdgeSeqFrom(g, 1)

\* "\n".join(lines): a text is the token sequence of its lines with a
\* newline token between two lines.
RECURSIVE JoinFrom(_, _)
JoinFrom(lines, i) ==
    IF i > Len(lines) THEN <<>>
    ELSE IF i = Len(lines) THEN lines[i]
    ELSE lines[i] \o <<"\n">> \o JoinFrom(lines, i + 1)
Join(lines) == JoinFrom(lines, 1)

\* The Markdown code fence (three grave accents), a character the string
\* syntax of TLA+ does not take.
Fence == "<fence>"

\* _to_mermaid(g)   (ToMermaidWithNodes: a line for every node as well)
ToMermaidWithNodes(g) ==
    Join(<< <<Fence, "mermaid">>, <<"graph LR;">> >>
         \o [k \in 1..Len(g.nodes) |-> <<"    \"", g.nodes[k], "\"">>]
         \o [k \in 1..Len(EdgeSeq(g)) |->
               <<"    \"", EdgeSeq(g)[k][1], "\" --> \"", EdgeSeq(g)[k][2], "\"">>]
         \o << <<Fence>> >>)
ToMermaid(g) ==
    Join(<< <<Fence, "mermaid">>, <<"graph LR;">> >>
         \o [k \in 1..Len(EdgeSeq(g)) |->
               <<"    \"", EdgeSeq(g)[k][1], "\" --> \"", EdgeSeq(g)[k][2], "\"">>]
         \o << <<Fence>> >>)

\* _to_dot(g)   (ToDotEdgesFirst: the edge lines ahead of the node lines)
ToDotEdgesFirst(g) ==
    Join(<< <<"digraph G {">> >>
         \o [k \in 1..Len(EdgeSeq(g)) |->
               <<"    \"", EdgeSeq(g)[k][1], "\" -> \"", EdgeSeq(g)[k][2], "\";">>]
         \o [k \in 1..Len(g.nodes) |-> <<"    \"", g.nodes[k], "\";">>]
         \o << <<"}">> >>)
ToDot(g) ==
    Join(<< <<"digraph G {">> >>
         \o [k \in 1..Len(g.nodes) |-> <<"    \"", g.nodes[k], "\";">>]
         \o [k \in 1..Len(EdgeSeq(g)) |->
               <<"    \"", EdgeSeq(g)[k][1], "\" -> \"", EdgeSeq(g)[k][2], "\";">>]
         \o << <<"}">> >>)

\* _detect_graphviz()   (DetectGraphvizAlways: the probe taken to succeed)
DetectGraphvizAlways == TRUE
DetectGraphviz == has_dot

\* fmt.lower(), on the letters the format selectors are spelled with
LowerChar(c) ==
    CASE c = "D" -> "d" [] c = "F" -> "f" [] c = "G" -> "g" [] c = "M" -> "m"
      [] c = "P" -> "p" [] c = "S" -> "s" [] c = "V" -> "v" [] OTHER -> c
Lower(str) == [i \in 1..Len(str) |-> LowerChar(str[i])]

\* The format selectors render_graphs is called with, letter by letter.
MermaidSpellings == { <<"m", "e", "r", "m", "a", "i", "d">>, <<"M", "e", "r", "m", "a", "i", "d">> }
SvgSpellings     == { <<"s", "v", "g">>, <<"S", "V", "G">> }
OtherFormats     == { <<"p", "d", "f">>, <<"d", "o", "t">>, <<>> }
Formats          == MermaidSpellings \cup SvgSpellings \cup OtherFormats

\* The files of the destination directory: dest / f"{name}.{ext}"
ArtifactFile(name, ext) == <<name, ext>>

\* The text of a file that was in the destination before the call.
Stale == <<"stale">>

\* The destination before the call: absent, or a directory that may hold
\* artifacts of an earlier run.
EarlierFiles ==
    { ArtifactFile("module_graph", ".dot"),
      ArtifactFile("class_hierarchy", ".dot"),
      ArtifactFile("class_hierarchy", ".svg") }
Filesystems ==
    {EmptyFs} \cup {[dir_exists |-> TRUE, files |-> [f \in D |-> Stale]] : D \in SUBSET EarlierFiles}

\* The pairs of graphs render_graphs is called with.
ModuleGraphs ==
    { EmptyGraph,
      AddNode(EmptyGraph, "b.py"),
      AddModule(AddNode(EmptyGraph, "b.py"), "a.py", <<"os", "b">>) }
ClassGraphs ==
    { EmptyGraph, AddClass(EmptyGraph, "b.py:Foo", "Exception") }

\* Path.write_text(text)   (WriteTextAppend: the file opened for appending)
WriteTextAppend(f, file, text) ==
    [f EXCEPT !.files = Put(@, file, (IF file \in DOMAIN @ THEN @[file] ELSE <<>>) \o text)]
WriteText(f, file, text) == [f EXCEPT !.files = Put(@, file, text)]

\* The console lines and the error message of render_graphs (the dash of
\* line 39 written in ASCII).
MsgNoGraphviz == "[red]Graphviz 'dot' not found - cannot render SVGs[/]"
MsgSuccess    == "[green]Diagrams generated successfully.[/]"
MsgBadFormat  == "ValueError: format must be mermaid or svg"

\* ["dot", "-Tsvg", str(dest / f"{name}.dot"), "-o", str(dest / f"{name}.svg")]
DotCommand(name) ==
    <<"dot", "-Tsvg", ArtifactFile(name, ".dot"), "-o", ArtifactFile(name, ".svg")>>

\* What the layout tool leaves in the image file for a descriptor text.
SvgOf(text) == <<"<svg>">> \o text

RenderInitial ==
    /\ fmt \in Formats
    /\ graphs \in ModuleGraphs \X ClassGraphs
    /\ has_dot \in BOOLEAN
    /\ pending = <<>>
    /\ fs0 \in Filesystems
    /\ fs = fs0
    /\ console = <<>>
    /\ invoked = <<>>
    /\ raised = ""
    /\ render_pc = "start"
    /\ first_call = [pc |-> "none", fs |-> EmptyFs]

\* dest.mkdir(parents=True, exist_ok=True), line 32
RenderMkdir ==
    /\ render_pc = "start"
    /\ fs' = [fs EXCEPT !.dir_exists = TRUE]
    /\ render_pc' = "dispatch"
    /\ UNCHANGED <<first_call, fmt, graphs, has_dot, pending, fs0, console, invoked, raised>>
    /\ UNCHANGED <<scanVars, buildVars, mainVars, wikiVars, callVars>>

\* The mermaid branch, lines 34-36, and the closing line 50.
RenderMermaid ==
    /\ render_pc = "dispatch"
    /\ Lower(fmt) = <<"m", "e", "r", "m", "a", "i", "d">>
    /\ fs' = WriteText(WriteText(fs, ArtifactFile("module_graph", ".md"), ToMermaid(graphs[1])),
                       ArtifactFile("class_hierarchy", ".md"), ToMermaid(graphs[2]))
    /\ console' = Append(console, MsgSuccess)
    /\ render_pc' = "returned"
    /\ UNCHANGED <<first_call, fmt, graphs, has_dot, pending, fs0, invoked, raised>>
    /\ UNCHANGED <<scanVars, buildVars, mainVars, wikiVars, callVars>>

\* The svg branch when the probe fails, lines 37-40.
RenderSvgNoTool ==
    /\ render_pc = "dispatch"
    /\ Lower(fmt) # <<"m", "e", "r", "m", "a", "i", "d">>
    /\ Lower(fmt) = <<"s", "v", "g">>
    /\ ~DetectGraphviz
    /\ console' = Append(console, MsgNoGraphviz)
    /\ render_pc' = "returned"
    /\ UNCHANGED <<first_call, fmt, graphs, has_dot, pending, fs0, fs, invoked, raised>>
    /\ UNCHANGED <<scanVars, buildVars, mainVars, wikiVars, callVars>>

\* The svg branch when the probe succeeds: the loop of line 41 starts.
RenderSvgStart ==
    /\ render_pc = "dispatch"
    /\ Lower(fmt) # <<"m", "e", "r", "m", "a", "i", "d">>
    /\ Lower(fmt) = <<"s", "v", "g">>
    /\ DetectGraphviz
    /\ pending' = << <<"module_graph", graphs[1]>>, <<"class_hierarchy", graphs[2]>> >>
    /\ render_pc' = "write"
    /\ UNCHANGED <<first_call, fmt, graphs, has_dot, fs0, fs, console, invoked, raised>>
    /\ UNCHANGED <<scanVars, buildVars, mainVars, wikiVars, callVars>>

\* (dest / f"{name}.dot").write_text(_to_dot(g)), line 42
RenderWriteDot ==
    /\ render_pc = "write"
    /\ fs' = WriteText(fs, ArtifactFile(pending[1][1], ".dot"), ToDot(pending[1][2]))
    /\ render_pc' = "run"
    /\ UNCHANGED <<first_call, fmt, graphs, has_dot, pending, fs0, console, invoked, raised>>
    /\ UNCHANGED <<scanVars, buildVars, mainVars, wikiVars, callVars>>

\* check=True of subprocess.run: CalledProcessError for an exit status
\* other than 0.   (CheckIgnored: check=False)
CheckIgnored(status_zero) == FALSE
CheckRaises(status_zero) == ~status_zero

\* subprocess.run([...], check=True), lines 43-46: the tool exits with
\* status 0 and has written the image, or with another status and
\* CalledProcessError leaves render_graphs.  After the last graph, line 50.
RenderRunDot ==
    /\ render_pc = "run"
    /\ \E status_zero \in BOOLEAN :
          /\ invoked' = Append(invoked, [argv |-> DotCommand(pending[1][1]), ok |-> status_zero])
          /\ IF CheckRaises(status_zero)
             THEN /\ raised' = "CalledProcessError"
                  /\ render_pc' = "raised"
                  /\ UNCHANGED <<fs, pending, console>>
             ELSE /\ fs' = IF status_zero
                           THEN WriteText(fs, ArtifactFile(pending[1][1], ".svg"),
                                          SvgOf(fs.files[ArtifactFile(pending[1][1], ".dot")]))
                           ELSE fs
                  /\ pending' = Tail(pending)
                  /\ IF Tail(pending) = <<>>
                     THEN /\ console' = Append(console, MsgSuccess)
                          /\ render_pc' = "returned"
                     ELSE /\ render_pc' = "write"
                          /\ UNCHANGED console
                  /\ UNCHANGED raised
    /\ UNCHANGED <<first_call, fmt, graphs, has_dot, fs0>>
    /\ UNCHANGED <<scanVars, buildVars, mainVars, wikiVars, callVars>>

\* The else branch, lines 47-49.
RenderBadFormat ==
    /\ render_pc = "dispatch"
    /\ Lower(fmt) # <<"m", "e", "r", "m", "a", "i", "d">>
    /\ Lower(fmt) # <<"s", "v", "g">>
    /\ raised' = MsgBadFormat
    /\ render_pc' = "raised"
    /\ UNCHANGED <<first_call, fmt, graphs, has_dot, pending, fs0, fs, console, invoked>>
    /\ UNCHANGED <<scanVars, buildVars, mainVars, wikiVars, callVars>>

\* A second call of render_graphs with the same graphs, destination and
\* format, on the filesystem the first call left.
RenderAgain ==
    /\ render_pc \in {"returned", "raised"}
    /\ first_call.pc = "none"
    /\ first_call' = [pc |-> render_pc, fs |-> fs]
    /\ pending' = <<>>
    /\ raised' = ""
    /\ render_pc' = "start"
    /\ UNCHANGED <<fmt, graphs, has_dot, fs0, fs, console, invoked>>
    /\ UNCHANGED <<scanVars, buildVars, mainVars, wikiVars, callVars>>

RenderNext ==
    \/ RenderMkdir
    \/ RenderMermaid
    \/ RenderSvgNoTool
    \/ RenderSvgStart
    \/ RenderWriteDot
    \/ RenderRunDot
    \/ RenderBadFormat
    \/ RenderAgain

InitRender == ScanIdle /\ BuildIdle /\ RenderInitial /\ MainIdle /\ WikiIdle /\ CallIdle

SpecRender == InitRender /\ [][RenderNext]_vars

-----------------------------------------------------------------------------
(* The command line: cli.py, get_local_repo of clone.py, parse_codebase of
   parse.py *)

\* The strings --repo is given, as token sequences:
\*   https://github.com/u/r.git      https://github.com/u/r
\*   github.com/u/r.git              https://github.com
\*   file:///srv/r.git               the empty string
RepoUrls ==
    { <<"https", "://", "github.com", "/", "u", "/", "r", ".git">>,
      <<"https", "://", "github.com", "/", "u", "/", "r">>,
      <<"github.com", "/", "u", "/", "r", ".git">>,
      <<"https", "://", "github.com">>,
      <<"file", "://", "/", "srv", "/", "r", ".git">>,
      <<>> }
Repos == {NoRepo} \cup {[given |-> TRUE, url |-> u] : u \in RepoUrls}

\* --path: not given, or an existing folder (typer checks exists=True).
LocalPaths == {NoPath, [given |-> TRUE, parts |-> <<"proj">>]}

\* urlparse(url): the scheme ahead of "://", the host after it up to the
\* next "/", and the path.
UrlParse(u) ==
    IF Len(u) >= 2 /\ u[2] = "://"
    THEN LET rest == SubSeq(u, 3, Len(u))
             host == IF rest # <<>> /\ rest[1] # "/" THEN rest[1] ELSE ""
         IN  [scheme |-> u[1], netloc |-> host,
              path |-> IF host = "" THEN rest ELSE Tail(rest)]
    ELSE [scheme |-> "", netloc |-> "", path |-> u]

\* _is_git(url)
IsGit(u) ==
    LET p == UrlParse(u)
    IN  p.scheme # "" /\ p.netloc # "" /\ p.path # <<>> /\ p.path[Len(p.path)] = ".git"

\* Path(tempfile.mkdtemp(prefix="cbx_")): the suffix is the system's choice.
CloneDirs == { <<"/", "tmp", "/", "cbx_", "k3x">>, <<"/", "tmp", "/", "cbx_", "q7w">> }

\* What importing the analyser module may do: succeed, or raise.
ImportOutcomes == {"ok", "ModuleNotFoundError", "ImportError", "AttributeError"}

\* except ImportError (lines 17 and 20): ImportError and its subclasses
ImportErrorCatches(exc) == exc \in {"ImportError", "ModuleNotFoundError"}

\* except Exception (line 69): every exception class but those deriving
\* from BaseException alone.   (ExceptCatchesAll: a bare except)
ExceptCatchesAll(exc) == TRUE
ExceptCatches(exc) == exc \notin {"SystemExit", "KeyboardInterrupt", "GeneratorExit"}

\* What the analyser's constructor and its run() may raise.
AnalyserErrors == {"RuntimeError", "OSError"}

\* What analyser.run() may return: a dict with well-formed 'modules' and
\* 'classes' lists, a dict with a module that has no 'name', or no dict.
AnalyserData ==
    { [is_dict |-> TRUE,
       modules |-> << [has_name |-> TRUE, name |-> <<"a", ".py">>,
                       has_imports |-> TRUE, imports |-> <<"os", "b">>],
                      [has_name |-> TRUE, name |-> <<"b", ".py">>,
                       has_imports |-> FALSE, imports |-> <<>>] >>,
       classes |-> << [module |-> <<"b", ".py">>, name |-> "Foo", base |-> <<"Exception">>],
                      [module |-> <<"b", ".py">>, name |-> "Bar", base |-> <<>>] >>],
      [is_dict |-> TRUE,
       modules |-> << [has_name |-> FALSE, name |-> <<>>,
                       has_imports |-> FALSE, imports |-> <<>>] >>,
       classes |-> <<>>],
      [is_dict |-> FALSE, modules |-> <<>>, classes |-> <<>>] }

\* The two comprehensions of lines 66-67; ConvertError is what they raise.
ConvertError(data) ==
    IF ~data.is_dict THEN "AttributeError"
    ELSE IF \E i \in 1..Len(data.modules) : ~data.modules[i].has_name THEN "KeyError"
    ELSE ""
RECURSIVE ConvertModules(_, _)
ConvertModules(ms, i) ==
    IF i = 0 THEN EmptyMap
    ELSE Put(ConvertModules(ms, i - 1), ms[i].name,
             IF ms[i].has_imports THEN ms[i].imports ELSE <<>>)
RECURSIVE ConvertClasses(_, _)
ConvertClasses(cs, i) ==
    IF i = 0 THEN EmptyMap
    ELSE IF cs[i].base # <<>>
    THEN Put(ConvertClasses(cs, i - 1), Child(cs[i].module, cs[i].name), cs[i].base)
    ELSE ConvertClasses(cs, i - 1)
Convert(data) ==
    [modules |-> ConvertModules(data.modules, Len(data.modules)),
     classes |-> ConvertClasses(data.classes, Len(data.classes))]

\* What _fallback_ast may do for the root: return a pair of mappings, or
\* end by an exception (the UnicodeDecodeError of an undecodable file).
FallbackOutcomes ==
    { [raised |-> "", value |-> EmptyResult],
      [raised |-> "",
       value |-> [modules |-> (<<"a", ".py">> :> <<"os", "b">>) @@ (<<"b", ".py">> :> <<>>),
                  classes |-> (<<"b", ".py", ":", "Foo">> :> <<"Exception">>)]],
      [raised |-> "UnicodeDecodeError", value |-> EmptyResult] }

\* An entry of calls.
Call(op, arg, out, value) == [op |-> op, arg |-> arg, out |-> out, value |-> value]

\* An exception leaves the process: it exits with the status.
Exits(exc, status) ==
    /\ main_raised' = exc
    /\ exit_status' = status
    /\ main_pc' = "exited"

\* Where main goes when a stage has ended, lines 47-70.
\* (AfterStageSkipBuild: line 67 right after line 59.)
AfterStageSkipBuild(stage) ==
    CASE stage = "Acquire" -> "mkdir"
      [] stage = "Scan"    -> "render"
      [] stage = "Build"   -> "render"
      [] stage = "Render"  -> "finish"
AfterStage(stage) ==
    CASE stage = "Acquire" -> "mkdir"
      [] stage = "Scan"    -> "build"
      [] stage = "Build"   -> "render"
      [] stage = "Render"  -> "finish"

MainInitial ==
    /\ repo \in Repos
    /\ path \in LocalPaths
    /\ analyser_t = "None"
    /\ main_pc = "import"
    /\ trace = <<>>
    /\ calls = <<>>
    /\ target = <<>>
    /\ parsed = NotParsed
    /\ exit_status = Running
    /\ main_raised = ""
    /\ interrupted = NotInterrupted

\* One of the two import attempts of parse.py, lines 15-21: the import
\* binds AnalyserT, or raises; ImportError goes on to caught, any other
\* exception leaves the module, and the import of cli.py with it.
ImportAttempt(here, modname, caught) ==
    /\ main_pc = here
    /\ \E out \in ImportOutcomes :
          /\ calls' = Append(calls, Call("import", <<modname>>, out, EmptyResult))
          /\ IF out = "ok"
             THEN /\ analyser_t' = "Analyser"
                  /\ main_pc' = "main"
                  /\ UNCHANGED <<exit_status, main_raised>>
             ELSE IF ImportErrorCatches(out)
             THEN /\ main_pc' = caught
                  /\ UNCHANGED <<analyser_t, exit_status, main_raised>>
             ELSE /\ Exits(out, ExitError)
                  /\ UNCHANGED analyser_t
    /\ UNCHANGED <<repo, path, trace, target, parsed, interrupted>>
    /\ UNCHANGED <<scanVars, buildVars, renderVars, wikiVars, callVars>>

\* get_local_repo(repo, path), clone.py lines 29-36, called at cli.py:47.
GetLocalRepo ==
    /\ main_pc = "main"
    /\ IF path.given
       THEN /\ target' = <<"/", "cwd", "/">> \o path.parts   \* path.resolve()
            /\ trace' = trace \o << <<"Acquire", "start">>, <<"Acquire", "end">> >>
            /\ main_pc' = AfterStage("Acquire")
            /\ UNCHANGED <<exit_status, main_raised>>
       ELSE IF repo.given /\ repo.url # <<>> /\ IsGit(repo.url)
       THEN /\ trace' = Append(trace, <<"Acquire", "start">>)
            /\ main_pc' = "clone"
            /\ UNCHANGED <<target, exit_status, main_raised>>
       ELSE /\ trace' = trace \o << <<"Acquire", "start">>, <<"Acquire", "fail">> >>
            /\ Exits("BadParameter: Provide --repo <url> or --path <folder>", ExitUsage)
            /\ UNCHANGED target
    /\ UNCHANGED <<repo, path, analyser_t, calls, parsed, interrupted>>
    /\ UNCHANGED <<scanVars, buildVars, renderVars, wikiVars, callVars>>

\* _clone(url), clone.py lines 17-26, and the return of line 34: git clone
\* exits with status 0, or with another one and check=True raises.
Clone ==
    /\ main_pc = "clone"
    /\ \E ok \in BOOLEAN, dir \in CloneDirs :
          /\ calls' = Append(calls, Call("clone", repo.url,
                                        IF ok THEN "ok" ELSE "CalledProcessError", EmptyResult))
          /\ IF ok
             THEN /\ target' = dir
                  /\ trace' = Append(trace, <<"Acquire", "end">>)
                  /\ main_pc' = AfterStage("Acquire")
                  /\ UNCHANGED <<exit_status, main_raised>>
             ELSE /\ trace' = Append(trace, <<"Acquire", "fail">>)
                  /\ Exits("CalledProcessError", ExitError)
                  /\ UNCHANGED target
    /\ UNCHANGED <<repo, path, analyser_t, parsed, interrupted>>
    /\ UNCHANGED <<scanVars, buildVars, renderVars, wikiVars, callVars>>

\* output.mkdir(parents=True, exist_ok=True) and the rule, cli.py:48-56
Mkdir ==
    /\ main_pc = "mkdir"
    /\ main_pc' = "parse"
    /\ UNCHANGED <<repo, path, analyser_t, trace, calls, target, parsed, exit_status,
                   main_raised, interrupted>>
    /\ UNCHANGED <<scanVars, buildVars, renderVars, wikiVars, callVars>>

\* parse_codebase(target), parse.py lines 59-61, called at cli.py:59
ParseCodebase ==
    /\ main_pc = "parse"
    /\ trace' = Append(trace, <<"Scan", "start">>)
    /\ main_pc' = IF analyser_t = "None" THEN "fallback" ELSE "construct"
    /\ UNCHANGED <<repo, path, analyser_t, calls, target, parsed, exit_status,
                   main_raised, interrupted>>
    /\ UNCHANGED <<scanVars, buildVars, renderVars, wikiVars, callVars>>

\* An exception raised inside the try of lines 63-68: except Exception
\* takes it to the fallback call of line 71, any other leaves the process.
RaisedInTry(exc) ==
    IF ExceptCatches(exc)
    THEN /\ main_pc' = "fallback"
         /\ UNCHANGED <<exit_status, main_raised>>
    ELSE Exits(exc, IF exc = "SystemExit" THEN ExitInterrupted ELSE ExitError)

\* AnalyserT(project_dir=str(root), include_tests=False), line 64
AnalyserConstruct ==
    /\ main_pc = "construct"
    /\ \E out \in {"ok"} \cup AnalyserErrors :
          /\ calls' = Append(calls, Call("construct", target, out, EmptyResult))
          /\ IF out = "ok"
             THEN /\ main_pc' = "run"
                  /\ UNCHANGED <<trace, exit_status, main_raised>>
             ELSE /\ RaisedInTry(out)
                  /\ trace' = IF ExceptCatches(out) THEN trace
                               ELSE Append(trace, <<"Scan", "fail">>)
    /\ UNCHANGED <<repo, path, analyser_t, target, parsed, interrupted>>
    /\ UNCHANGED <<scanVars, buildVars, renderVars, wikiVars, callVars>>

\* analyser.run() and the conversion of its output, lines 65-68
AnalyserRun ==
    /\ main_pc = "run"
    /\ \/ \E exc \in AnalyserErrors :
             /\ calls' = Append(calls, Call("run", target, exc, EmptyResult))
             /\ RaisedInTry(exc)
             /\ trace' = IF ExceptCatches(exc) THEN trace
                          ELSE Append(trace, <<"Scan", "fail">>)
             /\ UNCHANGED parsed
       \/ \E data \in AnalyserData :
             IF ConvertError(data) # ""
             THEN /\ calls' = calls \o << Call("run", target, "ok", EmptyResult),
                                           Call("convert", target, ConvertError(data), EmptyResult) >>
                  /\ RaisedInTry(ConvertError(data))
                  /\ trace' = IF ExceptCatches(ConvertError(data)) THEN trace
                               ELSE Append(trace, <<"Scan", "fail">>)
                  /\ UNCHANGED parsed
             ELSE /\ calls' = calls \o << Call("run", target, "ok", EmptyResult),
                                           Call("convert", target, "ok", Convert(data)) >>
                  /\ parsed' = [by |-> "analyser", value |-> Convert(data)]
                  /\ trace' = Append(trace, <<"Scan", "end">>)
                  /\ main_pc' = AfterStage("Scan")
                  /\ UNCHANGED <<exit_status, main_raised>>
    /\ UNCHANGED <<repo, path, analyser_t, target, interrupted>>
    /\ UNCHANGED <<scanVars, buildVars, renderVars, wikiVars, callVars>>

\* return _fallback_ast(root, verbose), lines 61 and 71
Fallback ==
    /\ main_pc = "fallback"
    /\ \E o \in FallbackOutcomes :
          /\ calls' = Append(calls, Call("fallback", target,
                                        IF o.raised = "" THEN "ok" ELSE o.raised, o.value))
          /\ IF o.raised = ""
             THEN /\ parsed' = [by |-> "fallback", value |-> o.value]
                  /\ trace' = Append(trace, <<"Scan", "end">>)
                  /\ main_pc' = AfterStage("Scan")
                  /\ UNCHANGED <<exit_status, main_raised>>
             ELSE /\ trace' = Append(trace, <<"Scan", "fail">>)
                  /\ Exits(o.raised, ExitError)
                  /\ UNCHANGED parsed
    /\ UNCHANGED <<repo, path, analyser_t, target, interrupted>>
    /\ UNCHANGED <<scanVars, buildVars, renderVars, wikiVars, callVars>>

\* A stage of main is entered: build_graphs at cli.py:63, render_graphs at
\* cli.py:67.
StageStart(here, stage, inside) ==
    /\ main_pc = here
    /\ trace' = Append(trace, <<stage, "start">>)
    /\ main_pc' = inside
    /\ UNCHANGED <<repo, path, analyser_t, calls, target, parsed, exit_status,
                   main_raised, interrupted>>
    /\ UNCHANGED <<scanVars, buildVars, renderVars, wikiVars, callVars>>

\* build_graphs returns, cli.py:63-64
BuildEnd ==
    /\ main_pc = "building"
    /\ trace' = Append(trace, <<"Build", "end">>)
    /\ main_pc' = AfterStage("Build")
    /\ UNCHANGED <<repo, path, analyser_t, calls, target, parsed, exit_status,
                   main_raised, interrupted>>
    /\ UNCHANGED <<scanVars, buildVars, renderVars, wikiVars, callVars>>

\* render_graphs returns or raises, cli.py:67-68
RenderEnd ==
    /\ main_pc = "rendering"
    /\ \E o \in {"", "ValueError", "CalledProcessError"} :
          IF o = ""
          THEN /\ trace' = Append(trace, <<"Render", "end">>)
               /\ main_pc' = AfterStage("Render")
               /\ UNCHANGED <<exit_status, main_raised>>
          ELSE /\ trace' = Append(trace, <<"Render", "fail">>)
               /\ Exits(o, ExitError)
    /\ UNCHANGED <<repo, path, analyser_t, calls, target, parsed, interrupted>>
    /\ UNCHANGED <<scanVars, buildVars, renderVars, wikiVars, callVars>>

\* console.print of cli.py:70, and main returns
Finish ==
    /\ main_pc = "finish"
    /\ exit_status' = ExitOk
    /\ main_pc' = "exited"
    /\ UNCHANGED <<repo, path, analyser_t, trace, calls, target, parsed, main_raised, interrupted>>
    /\ UNCHANGED <<scanVars, buildVars, renderVars, wikiVars, callVars>>

\* SIGINT arrives while main runs: _sigint_handler (cli.py:18-23) calls
\* sys.exit(130), which raises SystemExit at the point main has reached.
Interrupt ==
    /\ main_pc \notin {"idle", "import", "import_alt", "exited"}
    /\ interrupted = NotInterrupted
    /\ interrupted' = [at |-> main_pc, events |-> Len(trace)]
    /\ IF main_pc \in {"construct", "run"}
       THEN RaisedInTry("SystemExit")
       ELSE Exits("SystemExit", ExitInterrupted)
    /\ UNCHANGED <<repo, path, analyser_t, trace, calls, target, parsed>>
    /\ UNCHANGED <<scanVars, buildVars, renderVars, wikiVars, callVars>>

MainNext ==
    \/ ImportAttempt("import", "deepwiki_open.analyser", "import_alt")
    \/ ImportAttempt("import_alt", "deepwiki_open.backend.analyser", "main")
    \/ GetLocalRepo
    \/ Clone
    \/ Mkdir
    \/ ParseCodebase
    \/ AnalyserConstruct
    \/ AnalyserRun
    \/ Fallback
    \/ StageStart("build", "Build", "building")
    \/ BuildEnd
    \/ StageStart("render", "Render", "rendering")
    \/ RenderEnd
    \/ Finish
    \/ Interrupt

InitMain == ScanIdle /\ BuildIdle /\ RenderIdle /\ MainInitial /\ WikiIdle /\ CallIdle

SpecMain == InitMain /\ [][MainNext]_vars

-----------------------------------------------------------------------------
(* The DeepWiki client: src/deepwiki_client.py, export_full_wiki_async *)

MaxTokens == 2   \* frames the server streams before the socket closes
MaxPages  == 2   \* pages of a paginated Bitbucket listing

\* HTTP_OK, and a status _ensure_ok rejects
HTTP_OK     == 200
HttpMissing == 404

\* The repository URLs the client is called with, as token sequences.
WikiUrls ==
    { <<"https", "://", "github.com", "/", "u", "/", "r">>,
      <<"https", "://", "gitlab.com", "/", "u", "/", "r">>,
      <<"http", "://", "bitbucket.org", "/", "u", "/", "r">>,
      <<"https", "://", "example.org", "/", "u", "/", "r">> }

\* _parse_repo_info_from_url(url): GIT_HOST_RE.match and host_map;
\* matched = FALSE stands for the ValueError of an unsupported URL.
ParseRepoInfo(u) ==
    IF /\ Len(u) >= 7
       /\ u[1] \in {"http", "https"} /\ u[2] = "://"
       /\ u[3] \in {"github.com", "gitlab.com", "bitbucket.org"}
       /\ u[4] = "/" /\ u[5] # "/" /\ u[6] = "/" /\ u[7] # "/"
    THEN [matched |-> TRUE, owner |-> u[5], repo |-> u[7], host |-> u[3],
          repo_type |-> CASE u[3] = "github.com" -> "github"
                          [] u[3] = "gitlab.com" -> "gitlab"
                          [] u[3] = "bitbucket.org" -> "bitbucket"]
    ELSE [matched |-> FALSE, owner |-> "", repo |-> "", host |-> "", repo_type |-> ""]

\* _ensure_ok(resp, step) returns (does not raise)
EnsureOk(status) == status = HTTP_OK

\* The blob paths a listing returns.
ListedFiles == <<"README.md", "a.py">>

\* "".join(tokens)
RECURSIVE Joined(_)
Joined(toks) == IF toks = <<>> THEN <<>> ELSE Head(toks) \o Joined(Tail(toks))

\* "if not content", line 85   (NoContentNever: the test dropped)
NoContentNever(c) == FALSE
NoContent(c) == c = <<>>

LogEntry(step, what, ok) == [step |-> step, what |-> what, ok |-> ok]

\* raise: the exception leaves export_full_wiki_async
WikiRaise(exc) ==
    /\ wiki_raised' = exc
    /\ wiki_pc' = "raised"

\* A requests.get / requests.post followed by _ensure_ok: the server
\* answers with a status; any but 200 raises RuntimeError.
Request(here, step, what, next) ==
    /\ wiki_pc = here
    /\ \E status \in {HTTP_OK, HttpMissing} :
          /\ wiki_log' = Append(wiki_log, LogEntry(step, what, EnsureOk(status)))
          /\ IF EnsureOk(status)
             THEN /\ wiki_pc' = next
                  /\ UNCHANGED wiki_raised
             ELSE WikiRaise("RuntimeError")

WikiInitial ==
    /\ wiki_url \in WikiUrls
    /\ wiki_fmt \in {"markdown", "html"}
    /\ wiki_pc = "start"
    /\ wiki_log = <<>>
    /\ listing = <<>>
    /\ pages_read = 0
    /\ tokens = <<>>
    /\ content = <<>>
    /\ cache = <<>>
    /\ dest = NoDest
    /\ wiki_raised = ""

\* dest.mkdir(parents=True, exist_ok=True), lines 77-78
WikiMkdir ==
    /\ wiki_pc = "start"
    /\ dest' = [dest EXCEPT !.exists = TRUE]
    /\ wiki_pc' = "list"
    /\ UNCHANGED <<wiki_url, wiki_fmt, wiki_log, listing, pages_read, tokens, content, cache,
                   wiki_raised>>
    /\ UNCHANGED <<scanVars, buildVars, renderVars, mainVars, callVars>>

\* _get_repo_files, lines 194-203: the URL is parsed and the listing of
\* its host is chosen.
WikiGetRepoFiles ==
    /\ wiki_pc = "list"
    /\ IF ~ParseRepoInfo(wiki_url).matched
       THEN WikiRaise("ValueError")
       ELSE /\ wiki_pc' = CASE ParseRepoInfo(wiki_url).repo_type = "github" -> "gh_repo"
                             [] ParseRepoInfo(wiki_url).repo_type = "gitlab" -> "gl_tree"
                             [] OTHER -> "bb_repo"
            /\ UNCHANGED wiki_raised
    /\ UNCHANGED <<wiki_url, wiki_fmt, wiki_log, listing, pages_read, tokens, content, cache, dest>>
    /\ UNCHANGED <<scanVars, buildVars, renderVars, mainVars, callVars>>

\* _list_github_blobs, lines 206-231: repo info, branch info, git tree
WikiGithubRepo ==
    /\ Request("gh_repo", "list", "GET api.github.com/repos", "gh_branch")
    /\ UNCHANGED <<wiki_url, wiki_fmt, listing, pages_read, tokens, content, cache, dest>>
    /\ UNCHANGED <<scanVars, buildVars, renderVars, mainVars, callVars>>
WikiGithubBranch ==
    /\ Request("gh_branch", "list", "GET api.github.com/repos/branches", "gh_tree")
    /\ UNCHANGED <<wiki_url, wiki_fmt, listing, pages_read, tokens, content, cache, dest>>
    /\ UNCHANGED <<scanVars, buildVars, renderVars, mainVars, callVars>>
WikiGithubTree ==
    /\ Request("gh_tree", "list", "GET api.github.com/repos/git/trees", "connect")
    /\ listing' = IF wiki_pc' = "connect" THEN ListedFiles ELSE listing
    /\ UNCHANGED <<wiki_url, wiki_fmt, pages_read, tokens, content, cache, dest>>
    /\ UNCHANGED <<scanVars, buildVars, renderVars, mainVars, callVars>>

\* _list_gitlab_blobs, lines 234-243
WikiGitlabTree ==
    /\ Request("gl_tree", "list", "GET gitlab.com/api/v4/projects/repository/tree", "connect")
    /\ listing' = IF wiki_pc' = "connect" THEN ListedFiles ELSE listing
    /\ UNCHANGED <<wiki_url, wiki_fmt, pages_read, tokens, content, cache, dest>>
    /\ UNCHANGED <<scanVars, buildVars, renderVars, mainVars, callVars>>

\* _list_bitbucket_blobs, lines 246-264: the repository, then the pages
\* of the listing while the answer names a next page.
WikiBitbucketRepo ==
    /\ Request("bb_repo", "list", "GET api.bitbucket.org/2.0/repositories", "bb_page")
    /\ UNCHANGED <<wiki_url, wiki_fmt, listing, pages_read, tokens, content, cache, dest>>
    /\ UNCHANGED <<scanVars, buildVars, renderVars, mainVars, callVars>>
WikiBitbucketPage ==
    /\ \E next \in {"bb_page", "connect"} :
          /\ next = "bb_page" => pages_read + 1 < MaxPages
          /\ Request("bb_page", "list", "GET api.bitbucket.org/2.0/repositories/src", next)
    /\ pages_read' = pages_read + 1
    /\ listing' = IF wiki_pc' = "raised" THEN listing ELSE listing \o ListedFiles
    /\ UNCHANGED <<wiki_url, wiki_fmt, tokens, content, cache, dest>>
    /\ UNCHANGED <<scanVars, buildVars, renderVars, mainVars, callVars>>

\* _run_and_capture_stream, lines 152-167: websockets.connect and
\* ws.send; a failure is wrapped into RuntimeError (line 165).
WikiConnect ==
    /\ wiki_pc = "connect"
    /\ \E ok \in BOOLEAN :
          /\ wiki_log' = Append(wiki_log, LogEntry("stream", "connect", ok))
          /\ IF ok THEN wiki_pc' = "recv" /\ UNCHANGED wiki_raised
                   ELSE WikiRaise("RuntimeError")
    /\ UNCHANGED <<wiki_url, wiki_fmt, listing, pages_read, tokens, content, cache, dest>>
    /\ UNCHANGED <<scanVars, buildVars, renderVars, mainVars, callVars>>

\* tok = await ws.recv(); tokens.append(str(tok)), lines 159-160: the
\* frame is an empty text frame or a piece of text.
WikiRecv ==
    /\ wiki_pc = "recv"
    /\ Len(tokens) < MaxTokens
    /\ \E f \in { <<>>, <<"# Wiki">> } : tokens' = Append(tokens, f)
    /\ UNCHANGED <<wiki_url, wiki_fmt, wiki_pc, wiki_log, listing, pages_read, content, cache,
                   dest, wiki_raised>>
    /\ UNCHANGED <<scanVars, buildVars, renderVars, mainVars, callVars>>

\* The socket closes: ConnectionClosedOK returns the joined tokens (lines
\* 161-164), any other exception becomes RuntimeError (lines 165-167).
WikiClosed ==
    /\ wiki_pc = "recv"
    /\ \E normal \in BOOLEAN :
          /\ wiki_log' = Append(wiki_log, LogEntry("stream", "close", normal))
          /\ IF normal
             THEN /\ content' = Joined(tokens)
                  /\ wiki_pc' = "check"
                  /\ UNCHANGED wiki_raised
             ELSE /\ WikiRaise("RuntimeError")
                  /\ UNCHANGED content
    /\ UNCHANGED <<wiki_url, wiki_fmt, listing, pages_read, tokens, cache, dest>>
    /\ UNCHANGED <<scanVars, buildVars, renderVars, mainVars, callVars>>

\* if not content: raise RuntimeError(...), lines 85-87
WikiCheckContent ==
    /\ wiki_pc = "check"
    /\ IF NoContent(content)
       THEN WikiRaise("RuntimeError: No content streamed from DeepWiki server.")
       ELSE wiki_pc' = "save" /\ UNCHANGED wiki_raised
    /\ UNCHANGED <<wiki_url, wiki_fmt, wiki_log, listing, pages_read, tokens, content, cache, dest>>
    /\ UNCHANGED <<scanVars, buildVars, renderVars, mainVars, callVars>>

\* _save_wiki_to_cache, lines 90-93 and 169-172
WikiSaveCache ==
    /\ Request("save", "save", "POST /api/wiki_cache", "fetch")
    /\ cache' = IF wiki_pc' = "fetch" THEN content ELSE cache
    /\ UNCHANGED <<wiki_url, wiki_fmt, listing, pages_read, tokens, content, dest>>
    /\ UNCHANGED <<scanVars, buildVars, renderVars, mainVars, callVars>>

\* _download_and_write, lines 174-183: GET the cache, POST the export
WikiGetCache ==
    /\ Request("fetch", "fetch", "GET /api/wiki_cache", "export")
    /\ UNCHANGED <<wiki_url, wiki_fmt, listing, pages_read, tokens, content, cache, dest>>
    /\ UNCHANGED <<scanVars, buildVars, renderVars, mainVars, callVars>>
WikiExport ==
    /\ Request("export", "export", "POST /export/wiki", "write")
    /\ UNCHANGED <<wiki_url, wiki_fmt, listing, pages_read, tokens, content, cache, dest>>
    /\ UNCHANGED <<scanVars, buildVars, renderVars, mainVars, callVars>>

\* lines 185-191 and the return of line 97: a ZIP answer is extracted
\* into dest, any other is written as wiki.md or wiki.html.
WikiWrite ==
    /\ wiki_pc = "write"
    /\ \E zip \in BOOLEAN :
          LET file == IF zip THEN "wiki.zip members"
                      ELSE IF wiki_fmt = "markdown" THEN "wiki.md" ELSE "wiki.html"
          IN  /\ dest' = [dest EXCEPT !.files = @ \cup {file}]
              /\ wiki_log' = Append(wiki_log, LogEntry("write", file, TRUE))
    /\ wiki_pc' = "returned"
    /\ UNCHANGED <<wiki_url, wiki_fmt, listing, pages_read, tokens, content, cache, wiki_raised>>
    /\ UNCHANGED <<scanVars, buildVars, renderVars, mainVars, callVars>>

WikiNext ==
    \/ WikiMkdir
    \/ WikiGetRepoFiles
    \/ WikiGithubRepo
    \/ WikiGithubBranch
    \/ WikiGithubTree
    \/ WikiGitlabTree
    \/ WikiBitbucketRepo
    \/ WikiBitbucketPage
    \/ WikiConnect
    \/ WikiRecv
    \/ WikiClosed
    \/ WikiCheckContent
    \/ WikiSaveCache
    \/ WikiGetCache
    \/ WikiExport
    \/ WikiWrite

InitWiki == ScanIdle /\ BuildIdle /\ RenderIdle /\ MainIdle /\ WikiInitial /\ CallIdle

SpecWiki == InitWiki /\ [][WikiNext]_vars

-----------------------------------------------------------------------------
(* The callers of the client: deepwiki_wrapper.py, app.py, 01_DeepWiki_App.py *)

\* The parameters of export_full_wiki_async besides self, lines 66-75.
\* Only repo_url has no default.
Parameters == {"repo_url", "fmt", "out_dir", "language", "provider", "model", "token"}

\* The names of the keyword arguments each caller passes to export_full_wiki:
\* deepwiki_wrapper.py lines 83-91, app.py lines 45-53,
\* 01_DeepWiki_App.py lines 134-142.
Keywords(c) ==
    CASE c = "deepwiki_wrapper.py" ->
            {"repo_url", "fmt", "out_dir", "language", "provider", "model", "github_token"}
      [] c = "app.py" ->
            {"repo_url", "fmt", "out_dir", "language", "provider", "model", "github_token"}
      [] c = "01_DeepWiki_App.py" ->
            {"repo_url", "fmt", "out_dir", "language", "provider", "model", "token"}

\* An entry point starts with what the user gave it: the command line of
\* the wrapper (argparse requires repo_url, which may be any string, and
\* has no private switch), or the sidebar of a page when the button is
\* pressed (only 01_DeepWiki_App.py has the private checkbox).
CallInitial ==
    /\ caller \in {"deepwiki_wrapper.py", "app.py", "01_DeepWiki_App.py"}
    /\ form \in [repo_url : WikiUrls \cup {<<>>}, fmt : {"markdown", "html"},
                 token : {"", "tok"}, is_private : BOOLEAN]
    /\ form.is_private => caller = "01_DeepWiki_App.py"
    /\ kwargs = EmptyMap
    /\ call_pc = "start"
    /\ call_raised = ""
    /\ call_status = Running

\* The caller up to and including client.export_full_wiki(...):
\*   deepwiki_wrapper.py lines 70-91;  app.py lines 38-53 (an empty URL is
\*   refused, line 39);  01_DeepWiki_App.py lines 122-142 (an empty URL, or
\*   a private repository without a token, is refused with st.stop();
\*   GITHUB_TOKEN is not set in the environment).
\* export_full_wiki, line 57, calls export_full_wiki_async(*args, **kwargs):
\* a keyword that is no parameter, or a missing repo_url, raises TypeError
\* there, before any statement of the body runs; TypeError is none of the
\* exceptions lines 59-64 catch.  Otherwise the body starts.
CallExport ==
    /\ call_pc = "start"
    /\ LET token == IF caller = "deepwiki_wrapper.py"
                    THEN (IF form.token = "" THEN "None" ELSE form.token)
                    ELSE IF caller = "app.py"
                    THEN (IF form.token = "" THEN "None" ELSE form.token)
                    ELSE (IF form.is_private /\ form.token # "" THEN form.token ELSE "None")
           refused == \/ caller # "deepwiki_wrapper.py" /\ form.repo_url = <<>>
                      \/ caller = "01_DeepWiki_App.py" /\ form.is_private /\ token = "None"
           passed == [k \in Keywords(caller) |->
                         IF k = "repo_url" THEN form.repo_url
                         ELSE IF k = "fmt" THEN <<form.fmt>>
                         ELSE IF k \in {"token", "github_token"} THEN <<token>>
                         ELSE <<"given">>]
       IN  IF refused
           THEN /\ call_pc' = "stopped"
                /\ UNCHANGED <<kwargs, call_raised, wiki_url, wiki_fmt, wiki_pc>>
           ELSE /\ kwargs' = passed
                /\ IF DOMAIN passed \subseteq Parameters /\ "repo_url" \in DOMAIN passed
                   THEN /\ wiki_url' = passed["repo_url"]
                        /\ wiki_fmt' = passed["fmt"][1]
                        /\ wiki_pc' = "start"
                        /\ call_pc' = "running"
                        /\ UNCHANGED call_raised
                   ELSE /\ call_raised' = "TypeError"
                        /\ call_pc' = "failed"
                        /\ UNCHANGED <<wiki_url, wiki_fmt, wiki_pc>>
    /\ UNCHANGED <<caller, form, call_status>>
    /\ UNCHANGED <<wiki_log, listing, pages_read, tokens, content, cache, dest, wiki_raised>>
    /\ UNCHANGED <<scanVars, buildVars, renderVars, mainVars>>

\* The call of export_full_wiki ends and the caller's try statement deals
\* with it.
\*   lines 58, 62-64 of the client: wait_for cancels the coroutine at an
\*     await (the first is the file listing, line 80) and TimeoutError
\*     becomes sys.exit(1);
\*   deepwiki_wrapper.py lines 92-94: except Exception -> sys.exit(1), and
\*     a return of main ends the process with status 0;
\*   app.py lines 54-57: except Exception -> st.error, st.stop();
\*   01_DeepWiki_App.py lines 143-149: except ConnectionError / except
\*     RuntimeError -> st.error, st.stop(); any other exception leaves the
\*     script.
CallEnd ==
    /\ \/ /\ call_pc = "failed"
          /\ UNCHANGED <<call_raised, wiki_pc, wiki_raised>>
       \/ /\ call_pc = "running"
          /\ wiki_pc \in {"returned", "raised"}
          /\ call_raised' = wiki_raised
          /\ UNCHANGED <<wiki_pc, wiki_raised>>
       \/ /\ call_pc = "running"
          /\ wiki_pc \notin {"start", "returned", "raised"}
          /\ wiki_pc' = "raised"
          /\ wiki_raised' = "TimeoutError"
          /\ call_raised' = "SystemExit"
    /\ LET exc == call_raised'
           runtime == exc \in {"RuntimeError",
                               "RuntimeError: No content streamed from DeepWiki server."}
       IN  CASE caller = "deepwiki_wrapper.py" ->
                  /\ call_pc' = "exited"
                  /\ call_status' = IF exc = "" THEN ExitOk ELSE ExitError
             [] caller = "app.py" ->
                  /\ call_pc' = IF exc = "" THEN "preview"
                                ELSE IF ExceptCatches(exc) THEN "stopped" ELSE "raised"
                  /\ UNCHANGED call_status
             [] caller = "01_DeepWiki_App.py" ->
                  /\ call_pc' = IF exc = "" THEN "preview"
                                ELSE IF runtime THEN "stopped" ELSE "raised"
                  /\ UNCHANGED call_status
    /\ UNCHANGED <<caller, form, kwargs>>
    /\ UNCHANGED <<wiki_url, wiki_fmt, wiki_log, listing, pages_read, tokens, content, cache, dest>>
    /\ UNCHANGED <<scanVars, buildVars, renderVars, mainVars>>

CallNext ==
    \/ CallExport
    \/ CallEnd
    \/ WikiNext

InitCall == ScanIdle /\ BuildIdle /\ RenderIdle /\ MainIdle /\ WikiIdle /\ CallInitial

SpecCall == InitCall /\ [][CallNext]_vars

-----------------------------------------------------------------------------
(* Claims about the Scanner, checked under Spec *)

\* C1: whatever files of the tree cannot be read or parsed, the scan
\* terminates normally (it never ends by raising), and when it has returned,
\* every visited file that does parse has its module entry and an entry for
\* each of its classes that has a base.
C1_MalformedFileNeverAbortsScan ==
    /\ scan_pc # "raised"
    /\ scan_pc = "returned" =>
          \A rel \in DOMAIN tree :
             (rel[Len(rel)] = ".py" /\ LastPart(rel)[1] # "__init__"
                 /\ tree[rel].status = "parsed") =>
                /\ rel \in DOMAIN mods
                /\ \A i \in 1..Len(tree[rel].walk) :
                      LET n == tree[rel].walk[i]
                      IN  (n.type = "ClassDef" /\ n.bases # <<>>) =>
                             (rel \o <<":", n.name>>) \in DOMAIN inh

\* C2: after _fallback_ast has returned, a file whose parse failed is no key
\* of the modules mapping and prefixes no key of the classes mapping.
C2_UnparsableFileContributesNothing ==
    scan_pc = "returned" =>
       \A rel \in DOMAIN tree :
          tree[rel].status = "syntax_error" =>
             /\ rel \notin DOMAIN mods
             /\ \A k \in DOMAIN inh : ~IsPrefix(rel \o <<":">>, k)

\* C8: two runs of _fallback_ast over the same directory tree return equal
\* modules mappings and equal classes mappings.
C8_ScanReproducible ==
    (run = 2 /\ scan_pc = "returned") =>
       (mods = first_mods /\ inh = first_inh)

\* C9: a file whose name starts with __init__ is never visited (its path is
\* never a key of modules and prefixes no key of classes, whatever it
\* contains), and when the scan has returned every other file with the
\* source extension has been visited.
C9_InitializerFilesNeverVisited ==
    /\ \A rel \in DOMAIN tree :
          LastPart(rel)[1] = "__init__" =>
             /\ rel \notin DOMAIN mods
             /\ \A k \in DOMAIN inh : ~IsPrefix(rel \o <<":">>, k)
    /\ scan_pc = "returned" =>
          \A rel \in DOMAIN tree :
             (rel[Len(rel)] = ".py" /\ LastPart(rel)[1] # "__init__") =>
                rel \in DOMAIN mods

\* C9 witness: a scan has returned over a tree that holds a parsable
\* initializer file with imports or classes in it, next to a visited file.
C9_Witness ==
    /\ scan_pc = "returned"
    /\ \E rel \in DOMAIN tree :
          /\ LastPart(rel)[1] = "__init__"
          /\ rel[Len(rel)] = ".py"
          /\ tree[rel].status = "parsed"
          /\ \E i \in 1..Len(tree[rel].walk) :
                tree[rel].walk[i].type \in {"Import", "ClassDef"}
    /\ \E rel \in DOMAIN mods : mods[rel] # <<>>

\* C10 as stated: for every class definition with at least one base, the
\* base recorded under <rel>:<name> is that definition's first base (the
\* identifier of a plain name, the trailing attribute of a dotted reference),
\* and a class with no bases produces no entry.
C10_EveryClassRecordsItsFirstBase ==
    scan_pc = "returned" =>
       \A rel \in DOMAIN mods :
          \A i \in 1..Len(tree[rel].walk) :
             LET n   == tree[rel].walk[i]
                 key == rel \o <<":", n.name>>
             IN  n.type = "ClassDef" =>
                    IF n.bases = <<>>
                    THEN (\A j \in 1..Len(tree[rel].walk) :
                             LET o == tree[rel].walk[j]
                             IN  (o.type = "ClassDef" /\ o.name = n.name) => o.bases = <<>>)
                         => key \notin DOMAIN inh
                    ELSE /\ key \in DOMAIN inh
                         /\ n.bases[1].kind = "Name" => inh[key] = <<n.bases[1].id>>
                         /\ n.bases[1].kind = "Attribute" => inh[key] = <<n.bases[1].attr>>

\* C10 as amended: the entry <rel>:<name> holds the first base of the last
\* class definition of that name with a base in the file's walk (identifier,
\* trailing attribute, or the repr of any other expression); every entry of
\* the classes mapping is such an entry, so no second or later base is
\* recorded for a class; a name none of whose definitions has a base has no
\* entry.
C10_LastDefinitionRecordsItsFirstBase ==
    scan_pc = "returned" =>
       LET ClassAt(rel, i) ==
               /\ tree[rel].walk[i].type = "ClassDef"
               /\ tree[rel].walk[i].bases # <<>>
           LastOfName(rel, i) ==
               /\ ClassAt(rel, i)
               /\ \A j \in (i + 1)..Len(tree[rel].walk) :
                     ~(ClassAt(rel, j) /\ tree[rel].walk[j].name = tree[rel].walk[i].name)
           Recorded(b) ==
               IF b.kind = "Name" THEN {<<b.id>>}
               ELSE IF b.kind = "Attribute" THEN {<<b.attr>>}
               ELSE {<<"<ast.", b.kind, " object at ", a, ">">> : a \in Addrs}
           Entries ==
               {<<rel \o <<":", tree[rel].walk[i].name>>, tree[rel].walk[i].bases[1]>> :
                   <<rel, i>> \in {ri \in UNION {{<<r, j>> : j \in 1..Len(tree[r].walk)} :
                                                    r \in DOMAIN mods} :
                                      LastOfName(ri[1], ri[2])}}
       IN  /\ DOMAIN inh = {e[1] : e \in Entries}
           /\ \A e \in Entries : inh[e[1]] \in Recorded(e[2])

\* C10 witness: a returned scan recorded a class with two bases whose first
\* base is a dotted reference, and a class name defined twice.
C10_Witness ==
    /\ scan_pc = "returned"
    /\ \E rel \in DOMAIN mods :
          /\ \E i \in 1..Len(tree[rel].walk) :
                LET n == tree[rel].walk[i]
                IN  /\ n.type = "ClassDef" /\ Len(n.bases) = 2
                    /\ n.bases[1].kind = "Attribute"
                    /\ inh[rel \o <<":", n.name>>] = <<n.bases[1].attr>>
    /\ \E rel \in DOMAIN mods :
          \E i, j \in 1..Len(tree[rel].walk) :
             /\ i < j
             /\ tree[rel].walk[i].type = "ClassDef"
             /\ tree[rel].walk[j].type = "ClassDef"
             /\ tree[rel].walk[i].name = tree[rel].walk[j].name

-----------------------------------------------------------------------------
(* Claims about the Graph Builder, checked under SpecGraph *)

\* C6: when the first loop of build_graphs is over, the nodes of the
\* dependency graph are exactly the keys of the mapping together with every
\* import name in it, its edges are exactly the pairs (module, import name),
\* and a repeated import gives one edge (no node and no successor is held
\* twice).
C6_DependencyGraphIsTheMapping ==
    build_pc \in {"classes", "returned"} =>
       /\ Range(g_mod.nodes) =
             (DOMAIN module_deps)
                \cup UNION {Range(module_deps[m]) : m \in DOMAIN module_deps}
       /\ {<<u, v>> \in Range(g_mod.nodes) \X Range(g_mod.nodes) :
                v \in Range(g_mod.succ[u])}
             = UNION {{<<m, module_deps[m][i]>> : i \in 1..Len(module_deps[m])} :
                         m \in DOMAIN module_deps}
       /\ Len(g_mod.nodes) = Cardinality(Range(g_mod.nodes))
       /\ \A u \in Range(g_mod.nodes) :
             Len(g_mod.succ[u]) = Cardinality(Range(g_mod.succ[u]))

\* C6 witness: the graph built for "a imports b and c, b imports nothing"
\* has the nodes a, b, c and the edges a->b, a->c.
C6_Witness ==
    /\ build_pc = "returned"
    /\ module_deps = ("a" :> <<"b", "c">>) @@ ("b" :> <<>>)
    /\ Range(g_mod.nodes) = {"a", "b", "c"}
    /\ Range(g_mod.succ["a"]) = {"b", "c"}
    /\ g_mod.succ["b"] = <<>>
    /\ g_mod.succ["c"] = <<>>

\* C7: the class graph build_graphs returns has exactly the edges
\* (base, child) of the mapping, never (child, base) unless the mapping holds
\* that pair too, and exactly the children and the base names as nodes; the
\* children of one base name are all successors of the one node of that name.
C7_ClassGraphEdgesRunBaseToChild ==
    build_pc = "returned" =>
       /\ {<<u, v>> \in Range(g_cls.nodes) \X Range(g_cls.nodes) :
                v \in Range(g_cls.succ[u])}
             = {<<class_inherit[c], c>> : c \in DOMAIN class_inherit}
       /\ Range(g_cls.nodes) =
             (DOMAIN class_inherit) \cup {class_inherit[c] : c \in DOMAIN class_inherit}
       /\ Len(g_cls.nodes) = Cardinality(Range(g_cls.nodes))
       /\ \A b \in Range(g_cls.nodes) :
             /\ Len(g_cls.succ[b]) = Cardinality(Range(g_cls.succ[b]))
             /\ Range(g_cls.succ[b]) = {c \in DOMAIN class_inherit : class_inherit[c] = b}

\* C7 witness: two classes of different files that declare the same base
\* name hang under one base node.
C7_Witness ==
    /\ build_pc = "returned"
    /\ class_inherit = ("x.py:Foo" :> "Base") @@ ("y.py:Foo" :> "Base")
    /\ Range(g_cls.succ["Base"]) = {"x.py:Foo", "y.py:Foo"}
    /\ g_cls.succ["x.py:Foo"] = <<>>

-----------------------------------------------------------------------------
(* Claims about the Diagram Renderer, checked under SpecRender *)

\* C3: when the svg format is requested and the layout tool is absent,
\* render_graphs ends with module_graph.dot and class_hierarchy.dot written
\* in the destination (the descriptor of each graph) and with no image file
\* produced.
C3_DescriptorWrittenWithoutTool ==
    (fmt \in SvgSpellings /\ ~has_dot /\ render_pc \in {"returned", "raised"}) =>
       /\ render_pc = "returned"
       /\ <<"module_graph", ".dot">> \in DOMAIN fs.files
       /\ <<"class_hierarchy", ".dot">> \in DOMAIN fs.files
       /\ fs.files[<<"module_graph", ".dot">>] = ToDot(graphs[1])
       /\ fs.files[<<"class_hierarchy", ".dot">>] = ToDot(graphs[2])
       /\ \A f \in DOMAIN fs.files : f[2] = ".svg" => f \in DOMAIN fs0.files

\* C4: when the svg format is requested and the layout tool is unavailable,
\* render_graphs never raises and never invokes the tool, keeps every text
\* descriptor file that was in the destination, and has reported the missing
\* tool on the console when it returns.
C4_MissingToolIsReportedNotRaised ==
    (fmt \in SvgSpellings /\ ~has_dot) =>
       /\ render_pc # "raised"
       /\ raised = ""
       /\ invoked = <<>>
       /\ \A f \in DOMAIN fs0.files :
             f[2] = ".dot" => (f \in DOMAIN fs.files /\ fs.files[f] = fs0.files[f])
       /\ render_pc = "returned" =>
             \E k \in 1..Len(console) :
                console[k] = "[red]Graphviz 'dot' not found - cannot render SVGs[/]"

\* C4 witness: render_graphs has returned from an svg request without the
\* tool, in a destination that already held a descriptor file.
C4_Witness ==
    /\ render_pc = "returned"
    /\ fmt = <<"S", "V", "G">>
    /\ ~has_dot
    /\ <<"module_graph", ".dot">> \in DOMAIN fs0.files
    /\ <<"module_graph", ".dot">> \in DOMAIN fs.files
    /\ console # <<>>

\* C5: for a format other than mermaid and svg (in any letter case),
\* render_graphs fails with the error naming the two allowed values, and the
\* filesystem is never changed: the destination directory is not created and
\* no file is written.
C5_BadFormatFailsBeforeAnyIO ==
    fmt \in OtherFormats =>
       /\ fs = fs0
       /\ render_pc # "returned"
       /\ render_pc = "raised" => raised = "ValueError: format must be mermaid or svg"


-----------------------------------------------------------------------------
(* Claims about the import lists, checked under Spec *)

\* C11: when the scan has returned, the import list of every visited file
\* that parsed is, in walk order, the imported names of each "import"
\* statement (one entry per name, the dotted name as written) and the module
\* of each "from X import" statement (one entry per statement); a
\* "from . import" statement, which names no module, adds no entry, and no
\* other node adds one.
C11_ImportListIsNamesAndFromModules ==
    scan_pc = "returned" =>
       \A rel \in DOMAIN mods :
          tree[rel].status = "parsed" =>
             LET w == tree[rel].walk
                 EntriesOf(n) ==
                     IF n.type = "Import" THEN n.names
                     ELSE IF n.type = "ImportFrom" /\ n.module # "" THEN <<n.module>>
                     ELSE <<>>
                 upto[i \in 0..Len(w)] ==
                     IF i = 0 THEN <<>> ELSE upto[i - 1] \o EntriesOf(w[i])
             IN  mods[rel] = upto[Len(w)]

\* C11 witness: a scan has returned over a file with an import of two names
\* (one of them dotted), a "from b import", a "from . import" and another
\* statement, and its import list is os.path, b, b.
C11_Witness ==
    /\ scan_pc = "returned"
    /\ \E rel \in DOMAIN mods :
          /\ tree[rel].status = "parsed"
          /\ \E i \in 1..Len(tree[rel].walk) :
                tree[rel].walk[i].type = "ImportFrom" /\ tree[rel].walk[i].module = ""
          /\ mods[rel] = <<"os.path", "b", "b">>

-----------------------------------------------------------------------------
(* Claims about the rendered texts, checked under SpecRender *)

\* C12: the Mermaid text written for a graph is, line by line, the fenced
\* header (the fence line and "graph LR;"), then exactly one line
\* "<source>" --> "<target>" for every edge of the graph and no other line,
\* then the closing fence; a node without edges adds no line, so a graph of
\* isolated nodes only gives the header and the footer.
C12_MermaidTextIsOneLinePerEdge ==
    (render_pc = "returned" /\ Lower(fmt) = <<"m", "e", "r", "m", "a", "i", "d">>) =>
       \A idx \in {1, 2} :
          LET g    == graphs[idx]
              file == <<(IF idx = 1 THEN "module_graph" ELSE "class_hierarchy"), ".md">>
              t    == fs.files[file]
              nl   == {i \in 1..Len(t) : t[i] = "\n"}
              n    == Cardinality(nl) + 1
              NthNl(k) == CHOOSE i \in nl : Cardinality({j \in nl : j < i}) = k - 1
              Line(k)  == SubSeq(t, IF k = 1 THEN 1 ELSE NthNl(k - 1) + 1,
                                    IF k = n THEN Len(t) ELSE NthNl(k) - 1)
              edges    == UNION {{<<s, g.succ[s][j]>> : j \in 1..Len(g.succ[s])} :
                                    s \in {g.nodes[i] : i \in 1..Len(g.nodes)}}
              EdgeLine(e) == <<"    \"", e[1], "\" --> \"", e[2], "\"">>
          IN  /\ file \in DOMAIN fs.files
              /\ n = 3 + Cardinality(edges)
              /\ Line(1) = <<Fence, "mermaid">>
              /\ Line(2) = <<"graph LR;">>
              /\ Line(n) = <<Fence>>
              /\ \A e \in edges :
                    Cardinality({k \in 3..(n - 1) : Line(k) = EdgeLine(e)}) = 1
              /\ \A k \in 3..(n - 1) : \E e \in edges : Line(k) = EdgeLine(e)

\* C12 witness: a Mermaid rendering has returned for a module graph that has
\* a node and no edge, written as header and footer only, next to a class
\* graph whose one edge has its line.
C12_Witness ==
    /\ render_pc = "returned"
    /\ Lower(fmt) = <<"m", "e", "r", "m", "a", "i", "d">>
    /\ graphs[1].nodes = <<"b.py">>
    /\ fs.files[<<"module_graph", ".md">>] = <<Fence, "mermaid", "\n", "graph LR;", "\n", Fence>>
    /\ graphs[2].nodes = <<"Exception", "b.py:Foo">>
    /\ fs.files[<<"class_hierarchy", ".md">>] =
          <<Fence, "mermaid", "\n", "graph LR;", "\n",
            "    \"", "Exception", "\" --> \"", "b.py:Foo", "\"", "\n", Fence>>

\* C13: the layout-tool text written for a graph is, line by line, the
\* header "digraph G {", then exactly one declaration line for every node
\* (isolated ones included) and exactly one line for every edge and no other
\* line, every node line ahead of every edge line, then the footer "}".
C13_DotTextDeclaresNodesThenEdges ==
    (render_pc = "returned" /\ Lower(fmt) = <<"s", "v", "g">> /\ has_dot) =>
       \A idx \in {1, 2} :
          LET g    == graphs[idx]
              file == <<(IF idx = 1 THEN "module_graph" ELSE "class_hierarchy"), ".dot">>
              t    == fs.files[file]
              nl   == {i \in 1..Len(t) : t[i] = "\n"}
              n    == Cardinality(nl) + 1
              NthNl(k) == CHOOSE i \in nl : Cardinality({j \in nl : j < i}) = k - 1
              Line(k)  == SubSeq(t, IF k = 1 THEN 1 ELSE NthNl(k - 1) + 1,
                                    IF k = n THEN Len(t) ELSE NthNl(k) - 1)
              nodes    == {g.nodes[i] : i \in 1..Len(g.nodes)}
              edges    == UNION {{<<s, g.succ[s][j]>> : j \in 1..Len(g.succ[s])} : s \in nodes}
              NodeLine(v) == <<"    \"", v, "\";">>
              EdgeLine(e) == <<"    \"", e[1], "\" -> \"", e[2], "\";">>
              nodeAt   == {k \in 2..(n - 1) : \E v \in nodes : Line(k) = NodeLine(v)}
              edgeAt   == {k \in 2..(n - 1) : \E e \in edges : Line(k) = EdgeLine(e)}
          IN  /\ file \in DOMAIN fs.files
              /\ n = 2 + Cardinality(nodes) + Cardinality(edges)
              /\ Line(1) = <<"digraph G {">>
              /\ Line(n) = <<"}">>
              /\ \A v \in nodes : Cardinality({k \in 2..(n - 1) : Line(k) = NodeLine(v)}) = 1
              /\ \A e \in edges : Cardinality({k \in 2..(n - 1) : Line(k) = EdgeLine(e)}) = 1
              /\ nodeAt \cup edgeAt = 2..(n - 1)
              /\ \A i \in nodeAt : \A j \in edgeAt : i < j

\* C13 witness: an svg rendering has returned for a module graph with the
\* isolated node b.py and the edges a.py -> os, a.py -> b: four node lines,
\* then two edge lines.
C13_Witness ==
    /\ render_pc = "returned"
    /\ Lower(fmt) = <<"s", "v", "g">>
    /\ has_dot
    /\ graphs[1].nodes = <<"b.py", "a.py", "os", "b">>
    /\ fs.files[<<"module_graph", ".dot">>] =
          <<"digraph G {", "\n",
            "    \"", "b.py", "\";", "\n",
            "    \"", "a.py", "\";", "\n",
            "    \"", "os", "\";", "\n",
            "    \"", "b", "\";", "\n",
            "    \"", "a.py", "\" -> \"", "os", "\";", "\n",
            "    \"", "a.py", "\" -> \"", "b", "\";", "\n",
            "}">>

\* C14: when render_graphs has returned and is called a second time with the
\* same graphs, destination and format, then after the second call the
\* destination holds the same set of files as after the first, and every
\* text artifact (.md, .dot) has the text the first call left.
C14_SecondRenderLeavesSameArtifacts ==
    (first_call.pc = "returned" /\ render_pc \in {"returned", "raised"}) =>
       /\ DOMAIN fs.files = DOMAIN first_call.fs.files
       /\ fs.dir_exists = first_call.fs.dir_exists
       /\ \A f \in DOMAIN fs.files :
             f[2] \in {".md", ".dot"} => fs.files[f] = first_call.fs.files[f]

\* C14 witness: a second call has returned after a first one that wrote
\* artifacts with the base names module_graph and class_hierarchy.
C14_Witness ==
    /\ first_call.pc = "returned"
    /\ render_pc = "returned"
    /\ fs.files # fs0.files
    /\ \E ext \in {".md", ".dot"} :
          /\ <<"module_graph", ext>> \in DOMAIN fs.files
          /\ <<"class_hierarchy", ext>> \in DOMAIN fs.files
          /\ fs.files[<<"module_graph", ext>>] # <<"stale">>
          /\ graphs[1].nodes # <<>>

\* C20: in an svg rendering with the tool present, the tool is invoked for
\* the module graph first and then for the class graph, each after its own
\* descriptor was written and the class descriptor only after the tool has
\* succeeded on the module graph; when the tool exits non-zero for the
\* module graph, render_graphs has raised, that invocation is the only one,
\* module_graph.dot is on disk as written and class_hierarchy.dot is as it
\* was before the call.
C20_ToolFailureStopsTheLoop ==
    (first_call.pc = "none" /\ Lower(fmt) = <<"s", "v", "g">> /\ has_dot) =>
       LET mdot == <<"module_graph", ".dot">>
           cdot == <<"class_hierarchy", ".dot">>
           Written(f) == f \in DOMAIN fs.files /\ fs.files[f][1] = "digraph G {"
           Untouched(f) ==
               /\ f \in DOMAIN fs.files <=> f \in DOMAIN fs0.files
               /\ f \in DOMAIN fs.files => fs.files[f] = fs0.files[f]
       IN  /\ Len(invoked) <= 2
           /\ Len(invoked) >= 1 =>
                 /\ invoked[1].argv = <<"dot", "-Tsvg", mdot, "-o", <<"module_graph", ".svg">> >>
                 /\ Written(mdot)
           /\ Len(invoked) = 2 =>
                 /\ invoked[2].argv = <<"dot", "-Tsvg", cdot, "-o", <<"class_hierarchy", ".svg">> >>
                 /\ Written(cdot)
           /\ ~Untouched(cdot) => (Len(invoked) >= 1 /\ invoked[1].ok)
           /\ (Len(invoked) >= 1 /\ ~invoked[1].ok) =>
                 /\ render_pc = "raised"
                 /\ raised = "CalledProcessError"
                 /\ Len(invoked) = 1
                 /\ Written(mdot)
                 /\ Untouched(cdot)

\* C20 witness: the tool has failed on the module graph of a destination
\* that held no descriptor before: render_graphs has raised with
\* module_graph.dot on disk and no class_hierarchy.dot.
C20_Witness ==
    /\ first_call.pc = "none"
    /\ Lower(fmt) = <<"s", "v", "g">>
    /\ has_dot
    /\ render_pc = "raised"
    /\ Len(invoked) = 1
    /\ ~invoked[1].ok
    /\ fs0.files = EmptyMap
    /\ DOMAIN fs.files = {<<"module_graph", ".dot">>}

-----------------------------------------------------------------------------
(* Claims about the command line, checked under SpecMain *)

\* C15: in every run of main the stage events are a prefix of Acquire, Scan,
\* Build, Render, each stage started once and ended before the next one
\* starts; a stage that fails is the last event, the process has exited with
\* a failure status and no later stage has started; a run that exits with
\* status 0 has gone through all four stages.
C15_StagesRunOnceInOrder ==
    LET Expected == << <<"Acquire", "start">>, <<"Acquire", "end">>,
                       <<"Scan", "start">>,    <<"Scan", "end">>,
                       <<"Build", "start">>,   <<"Build", "end">>,
                       <<"Render", "start">>,  <<"Render", "end">> >>
        n == Len(trace)
    IN  /\ n <= 8
        /\ \/ trace = SubSeq(Expected, 1, n)
           \/ /\ n >= 2
              /\ SubSeq(trace, 1, n - 1) = SubSeq(Expected, 1, n - 1)
              /\ trace[n - 1][2] = "start"
              /\ trace[n] = <<trace[n - 1][1], "fail">>
              /\ main_pc = "exited"
              /\ exit_status \notin {Running, ExitOk}
        /\ (main_pc = "exited" /\ exit_status = ExitOk) => trace = Expected

\* C15 witness: a run has gone through the four stages and exited with
\* status 0 after a clone.
C15_Witness ==
    /\ main_pc = "exited"
    /\ exit_status = ExitOk
    /\ Len(trace) = 8
    /\ trace[7] = <<"Render", "start">>
    /\ \E i \in 1..Len(calls) : calls[i].op = "clone"

\* C16: once SIGINT has arrived, at whatever point of main (the analyser
\* call of parse_codebase included), the process has exited with status 130
\* by SystemExit, and no stage event was added after the interrupt.
C16_InterruptExitsWith130 ==
    interrupted.at # "" =>
       /\ main_pc = "exited"
       /\ exit_status = 130
       /\ main_raised = "SystemExit"
       /\ Len(trace) = interrupted.events

\* C16 witness: the interrupt arrived while the analyser was running inside
\* the try of parse_codebase, and the process exited with status 130.
C16_Witness ==
    /\ interrupted.at = "run"
    /\ exit_status = 130
    /\ trace[Len(trace)] = <<"Scan", "start">>

\* C17: no failure of the analyser ends the process: when its import, its
\* construction, its run or the conversion of its output has failed (or it
\* is absent), parse_codebase returns the value of a _fallback_ast call on
\* the same root; it returns the analyser's result only when import,
\* construction, run and conversion have all succeeded.
C17_AnalyserFailureIsNeverFatal ==
    LET AnalyserOps == {"import", "construct", "run", "convert"}
        Raised == {i \in 1..Len(calls) : calls[i].op \in AnalyserOps /\ calls[i].out # "ok"}
        Failed == {i \in Raised : calls[i].op # "import"}
        Ok(op) == \E i \in 1..Len(calls) : calls[i].op = op /\ calls[i].out = "ok"
    IN  /\ \A i \in Raised : main_raised # calls[i].out
        /\ (parsed.by # "none" /\ (Failed # {} \/ ~Ok("import"))) =>
              /\ parsed.by = "fallback"
              /\ \E i \in 1..Len(calls) :
                    /\ calls[i].op = "fallback"
                    /\ calls[i].arg = target
                    /\ calls[i].out = "ok"
                    /\ calls[i].value = parsed.value
        /\ parsed.by = "analyser" =>
              /\ Failed = {}
              /\ Ok("import") /\ Ok("construct") /\ Ok("run") /\ Ok("convert")

\* C18: get_local_repo raises the invocation-instruction error, without a
\* clone, exactly when no local path is given and --repo is missing or is no
\* remote repository URL (scheme, host and repository path); with such a URL
\* and no local path it runs git clone on it and returns the clone
\* directory; with a local path it returns that path and clones nothing.
C18_FailsExactlyWithoutValidSource ==
    trace # <<>> =>
       LET ValidRemote ==
               /\ repo.given
               /\ UrlParse(repo.url).scheme # ""
               /\ UrlParse(repo.url).netloc # ""
               /\ UrlParse(repo.url).path # <<>>
           Clones == {i \in 1..Len(calls) : calls[i].op = "clone"}
           BadParameter == main_raised = "BadParameter: Provide --repo <url> or --path <folder>"
       IN  /\ BadParameter <=> (~path.given /\ ~ValidRemote)
           /\ BadParameter => (Clones = {} /\ trace = << <<"Acquire", "start">>, <<"Acquire", "fail">> >>)
           /\ (~path.given /\ ValidRemote) =>
                 /\ (main_pc # "clone" /\ interrupted.at # "clone") =>
                       (\E i \in Clones : calls[i].arg = repo.url)
                 /\ \A i \in Clones : calls[i].out = "ok" => target \in CloneDirs
           /\ path.given => (target = <<"/", "cwd", "/">> \o path.parts /\ Clones = {})

-----------------------------------------------------------------------------
(* Claims about the DeepWiki client, checked under SpecWiki *)

\* C19: the requests of export_full_wiki_async come in the order listing,
\* WebSocket stream, POST /api/wiki_cache, GET /api/wiki_cache, POST
\* /export/wiki, write; a step is only made after the one before it has
\* succeeded, and a failed request is the last one, with the exception
\* raised; when the stream has closed abnormally, or normally with no
\* content, the call has raised, no cache save and no download was made and
\* the output folder holds no file.
C19_WikiStepsInOrderAndStopOnEmptyStream ==
    LET n == Len(wiki_log)
        Rank(step) == CASE step = "list" -> 1 [] step = "stream" -> 2 [] step = "save" -> 3
                        [] step = "fetch" -> 4 [] step = "export" -> 5 [] step = "write" -> 6
        Has(step)  == \E i \in 1..n : wiki_log[i].step = step
        Done(step) == \E i \in 1..n : wiki_log[i].step = step /\ wiki_log[i].ok
        ClosedOk   == \E i \in 1..n : wiki_log[i] = [step |-> "stream", what |-> "close", ok |-> TRUE]
        ClosedBad  == \E i \in 1..n : wiki_log[i] = [step |-> "stream", what |-> "close", ok |-> FALSE]
    IN  /\ \A i \in 1..n : \A j \in i..n : Rank(wiki_log[i].step) <= Rank(wiki_log[j].step)
        /\ \A i \in 1..n :
              ~wiki_log[i].ok => (i = n /\ wiki_pc = "raised" /\ wiki_raised # "")
        /\ \A step \in {"save", "fetch", "export", "write"} :
              Cardinality({i \in 1..n : wiki_log[i].step = step}) <= 1
        /\ Has("stream") => Done("list")
        /\ Has("save")   => (ClosedOk /\ content # <<>>)
        /\ Has("fetch")  => (Done("save") /\ cache = content)
        /\ Has("export") => Done("fetch")
        /\ Has("write")  => Done("export")
        /\ dest.files # {} => Has("write")
        /\ (ClosedBad \/ (ClosedOk /\ content = <<>> /\ wiki_pc # "check")) =>
              /\ wiki_pc = "raised"
              /\ wiki_raised # ""
              /\ ~Has("save") /\ ~Has("fetch") /\ ~Has("export") /\ ~Has("write")
              /\ cache = <<>>
              /\ dest.files = {}

\* C19 witness: after the listing, the stream delivered frames without
\* text and closed normally; the call has raised the no-content error with
\* nothing saved, downloaded or written.
C19_Witness ==
    /\ listing # <<>>
    /\ Len(tokens) = 2
    /\ wiki_log[Len(wiki_log)] = [step |-> "stream", what |-> "close", ok |-> TRUE]
    /\ content = <<>>
    /\ wiki_pc = "raised"
    /\ wiki_raised = "RuntimeError: No content streamed from DeepWiki server."
    /\ dest.files = {}


\* C21: for every output of the self-contained scanner, the class graph
\* built from it has every edge going from a base name, which holds no ':',
\* to a qualified child name <path>:<class>; no node is the target of one
\* edge and the source of another, so every path is at most one edge long,
\* and the graph has no cycle: every non-empty set of nodes has a node with
\* no edge into the set.
C21_ClassGraphOfScanIsOneLevel ==
    (scan_pc = "returned" /\ build_pc = "returned") =>
        LET E == Edges(g_cls)
        IN  /\ \A e \in E :
                /\ ":" \notin Range(e[1])
                /\ \E rel \in DOMAIN tree, name \in {e[2][Len(e[2])]} :
                      /\ ":" \notin Range(<<name>>)
                      /\ e[2] = rel \o <<":", name>>
            /\ \A e \in E, f \in E : e[2] # f[1]
            /\ \A S \in (SUBSET Nodes(g_cls)) \ {{}} :
                  \E n \in S : \A m \in S : <<n, m>> \notin E

\* A returned build of a scan in which class Foo of pkg/b.py, itself a
\* child of Model, is named as the base of class Baz.
C21_Witness ==
    /\ scan_pc = "returned"
    /\ build_pc = "returned"
    /\ LET foo == <<"pkg", "/", "b", ".py", ":", "Foo">>
           baz == <<"pkg", "/", "b", ".py", ":", "Baz">>
       IN  /\ <<<<"Model">>, foo>> \in Edges(g_cls)
           /\ <<<<"Foo">>, baz>> \in Edges(g_cls)


\* C22: every keyword argument deepwiki_wrapper.main and the app.py page
\* pass to export_full_wiki is a parameter of export_full_wiki_async; a
\* wrapper invocation with a repository URL has reached the file-listing
\* step of the export (the output folder exists) by the time it exits; and
\* the wrapper exits with status 1 only when a step of the export failed.
C22_CallerKeywordsAreAccepted ==
    /\ (caller \in {"deepwiki_wrapper.py", "app.py"} /\ call_pc \notin {"start", "stopped"}) =>
          DOMAIN kwargs \subseteq Parameters
    /\ (caller = "deepwiki_wrapper.py" /\ form.repo_url # <<>> /\ call_pc = "exited") =>
          dest.exists
    /\ (caller = "deepwiki_wrapper.py" /\ call_status = ExitError) =>
          (wiki_pc = "raised" /\ wiki_raised # "")

=========================================================================
